---------------------------- MODULE Spec2Model ----------------------------
(***************************************************************************)
(* Real-time speech translation pipeline (modules/pipeline.py) with the    *)
(* three modules it coordinates (modules/audio_capture.py,                 *)
(* modules/translator.py, modules/text_to_speech.py) and the language      *)
(* configuration (config/settings.py).                                     *)
(*                                                                         *)
(* A text is a sequence of one-character strings.  Wall-clock values       *)
(* (session_id, start_time, total_runtime) are not modelled.  Each handler *)
(* is a function from the program state (a record S holding every          *)
(* variable) to the program state, so that a handler calling another one   *)
(* is the composition of the two, as in the code.  With(e, LAMBDA x : ...) *)
(* names the value of e, as an assignment to a local does.                 *)
(***************************************************************************)
EXTENDS Integers, Sequences, FiniteSets, TLC

\* ------------------------------------------------------------- bounds
MaxSessions == 2        \* sessions started in one run
MaxErrors == 3          \* errors counted in one run
MaxTexts == 2           \* recognized-text events in one run
MaxCallbacks == 3       \* observers registered in one run, over the four lists
MaxEvents == 6          \* events fed to the context buffers (SpecContext)
MaxReports == 3         \* module error reports in one run (SpecErrors)
MaxPending == 1         \* initialize_model tasks waiting on the event loop
MaxImmediate == 3       \* translate_immediate requests in one run (SpecTranslate)
MaxSpeaks == 2          \* speak and speak_immediate requests in one run (SpecTts)
MaxLoads == 2           \* model objects constructed in one run (SpecManager)
MaxTicks == 32          \* ticks of the clock in one run (SpecWatchdog)
MaxLog == 3             \* entries of audio_log in one run (SpecRecognition)
MaxPrepare == 3         \* prepare_text_for_translation calls in one run (SpecPrepare)
MaxTasks == 3           \* translation tasks enqueued in one run (SpecWorker)
MaxOrphans == 2         \* replaced worker threads alive at once, per module

\* ------------------------------------------------- program constants
max_context_items == 5
sample_rate == 16000
chunk_duration_ms == 600
vad_chunk_duration_ms == 200
max_segment_duration_seconds == 7
chunk_size == 128
overlap == 32

\* The value of F at the value of e
With(e, F(_)) == CHOOSE r \in { F(x) : x \in {e} } : TRUE

\* --------------------------------------------------------------- texts
Blank == {" "}
\* The marks of [.!?] and of [.!?。！？]: the three full-width marks are written
\* by their code points
AsciiEndings == {".", "!", "?"}
Endings == AsciiEndings \cup {"u3002", "uFF01", "uFF1F"}

RECURSIVE LStrip(_)
LStrip(t) == IF t # <<>> /\ Head(t) \in Blank THEN LStrip(Tail(t)) ELSE t

RECURSIVE RStrip(_)
RStrip(t) ==
    IF t # <<>> /\ t[Len(t)] \in Blank THEN RStrip(SubSeq(t, 1, Len(t) - 1)) ELSE t

\* str.strip()
Strip(t) == RStrip(LStrip(t))

\* str.startswith()
StartsWith(t, p) == Len(p) <= Len(t) /\ SubSeq(t, 1, Len(p)) = p

\* re.search(r'[.!?。！？]', text)
HasEnding(t) == \E i \in 1..Len(t) : t[i] \in Endings

\* re.search(r'[.!?。！？]$', text)
EndsWithEnding(t) == t # <<>> /\ t[Len(t)] \in Endings

\* The recognizer's outputs used as inputs of the model
Texts == { <<"a">>, <<" ", "b", "c">>, <<" ">>, <<"a", ".">> }

\* The texts given to the translation worker: one the strategy holds back while
\* it is interim, a sentence, the same sentence followed by a second one, and
\* another sentence
WorkerTexts == { <<"a">>, <<"a", ".">>, <<"a", ".", " ", "b", ".">>, <<"b", ".">> }

\* The texts fed to the context buffers: two that differ once trimmed, one blank
ContextTexts == { <<"a">>, <<" ", "b", "c">>, <<" ">> }

\* The texts handed to the text-to-speech module: two utterances, a blank and
\* the empty text
TtsTexts == { <<"a">>, <<"b">>, <<" ">>, <<>> }

\* The texts given to the strategy: runs of letters around the chunk size, and
\* short ones with one mark or blank at the start, in the middle or at the end
Letters(n) == [ i \in 1..n |-> "a" ]
WithMark(n, p, m) == [ Letters(n) EXCEPT ![p] = m ]
StrategyLengths == { 0, 1, 3, chunk_size - 1, chunk_size, chunk_size + 1 }
StrategyTexts ==
    { Letters(n) : n \in StrategyLengths }
    \cup UNION { { WithMark(n, p, m) : p \in {1, 2, n}, m \in Endings \cup Blank } :
                    n \in {3, chunk_size - 1} }
    \cup { <<m>> : m \in Endings \cup Blank }

\* Observers are the front end's code: one returns, the other raises
\* The texts handed to prepare_text_for_translation: without a mark, ending with
\* a mark, with a mark followed by a blank, with a mark inside, longer than the
\* chunk, and longer than the chunk with a blank near the cut-off point
PrepareTexts ==
    { <<"a">>, <<"a", ".">>, <<"a", "uFF01", " ">>, <<"?", "a">>,
      Letters(chunk_size + 1), WithMark(chunk_size + 1, chunk_size - 40, " ") }

\* The model names and kinds the model manager is asked about, and its keys
ModelNames == {"Helsinki-NLP/opus-mt-zh-en"}
ModelKinds == {"transformers", "funasr"}
Key(kind, name) == [ kind |-> kind, name |-> name ]
ModelKeys == { Key(kind, name) : kind \in ModelKinds, name \in ModelNames }

\* d[k] = v on a dict
Put(d, k, v) == [ x \in DOMAIN d \cup {k} |-> IF x = k THEN v ELSE d[x] ]

\* What writing the status file can do: succeed, fail to open the file, or fail
\* after the file was opened for writing, which truncated it
SaveOutcomes == {"ok", "open_fails", "write_fails"}

\* time.time() in ticks of half a second, and its value when the program starts
TicksPerSecond == 2
StartOfTime == 100

\* current_segment_start_time = None
NoTime == -1

Behaviours == {"ok", "raise"}

\* Two threads that call the model manager, as the initializations of the audio
\* and of the translation module do
Callers == {"caller1", "caller2"}

\* The operations of the model manager that touch the caches or the ledger,
\* and those of them whose body is "with self._lock:"
ManagerOps == { "load_funasr_model", "load_translation_model", "clear_cache",
                "download_funasr_model", "download_translation_model" }
LockingOps == { "load_funasr_model", "load_translation_model", "clear_cache" }

\* A thread that is inside no operation of the model manager
Outside == [ op |-> "", locked |-> FALSE, name |-> "", force_reload |-> FALSE ]

Threads == {"main", "audio", "translation", "tts"}
Workers == {"audio", "translation", "tts"}

LangPairs == { <<"zh", "en">>, <<"en", "zh">> }

\* The pairs a caller can give: declared ones, same-language ones, an undeclared one
\* The language codes get_translation_model is asked about
Languages == {"zh", "en", "ja", "ko", "fr", "ru"}

ConfigPairs == LangPairs \cup { <<"en", "en">>, <<"zh", "zh">>, <<"fr", "de">> }

VARIABLES
    is_initialized, is_running, current_session, performance_stats,
    recent_source_texts, recent_translations,
    status_callbacks, text_callbacks, translation_callbacks, error_callbacks,
    audio_module, translation_module, tts_module, config,
    ret,            \* the last operation, what it returned and why
    delivery,       \* the last event fanned out to a callback list
    speak_log,      \* the speak() invocations of the coordinator, in order
    results,        \* the translation results handled with a session, in order
    stop_attempted, \* the modules whose stop the last stop_translation() called
    n_texts,        \* the events and requests the environment has fed so far
    reporting,      \* per worker thread: where it is in _report_error
    reports_done,   \* module error reports completed so far
    playback_log,   \* the playback statuses the TTS module reported, in order
    tts_stopped,    \* stop_tts_service() returned and no start followed
    immediate,      \* what the last translate_immediate() returned (some: not None)
    prepared,       \* what the last prepare_text_for_translation() returned
    fresh,          \* a second strategy, constructed when the first was last reset
    model_manager,  \* the ModelManager instance of the running process
    status_file,    \* model_status.json on disk
    loaded,         \* what the last load_*_model() returned (0: None), or raised
    downloads,      \* the keys a download was attempted for, and succeeded for
    now,            \* time.time(), in ticks
    audio_log,      \* what the audio thread did to is_speaking, and its final flushes
    orphans,        \* per module: the worker threads still alive that a later
                    \* start replaced by a new thread
    manager_busy,   \* per calling thread: the ModelManager operation it is inside
    orphan_worker,  \* where a replaced TTS thread is in tts_worker, and its text
    audio_busy,     \* the audio thread is inside a call of the recognizer
    strategy        \* a SimulTransStrategy constructed by a client, and the last
                    \* incremental text it returned

vars == << is_initialized, is_running, current_session, performance_stats,
           recent_source_texts, recent_translations,
           status_callbacks, text_callbacks, translation_callbacks, error_callbacks,
           audio_module, translation_module, tts_module, config,
           ret, delivery, speak_log, results, stop_attempted,
           n_texts, reporting, reports_done, playback_log, tts_stopped,
           immediate, prepared, fresh,
           model_manager, status_file, loaded, downloads, now, audio_log, orphans,
           manager_busy, orphan_worker, audio_busy, strategy >>

\* The program state as one record
Cur ==
    [ is_initialized |-> is_initialized, is_running |-> is_running,
      current_session |-> current_session, performance_stats |-> performance_stats,
      recent_source_texts |-> recent_source_texts,
      recent_translations |-> recent_translations,
      status_callbacks |-> status_callbacks, text_callbacks |-> text_callbacks,
      translation_callbacks |-> translation_callbacks,
      error_callbacks |-> error_callbacks,
      audio_module |-> audio_module, translation_module |-> translation_module,
      tts_module |-> tts_module, config |-> config,
      ret |-> ret, delivery |-> delivery, speak_log |-> speak_log,
      results |-> results, stop_attempted |-> stop_attempted,
      n_texts |-> n_texts, reporting |-> reporting, reports_done |-> reports_done,
      playback_log |-> playback_log, tts_stopped |-> tts_stopped,
      immediate |-> immediate, prepared |-> prepared, fresh |-> fresh,
      model_manager |-> model_manager, status_file |-> status_file,
      loaded |-> loaded, downloads |-> downloads,
      now |-> now, audio_log |-> audio_log, orphans |-> orphans,
      manager_busy |-> manager_busy, orphan_worker |-> orphan_worker,
      audio_busy |-> audio_busy, strategy |-> strategy ]

\* The next state is the record S
Apply(S) ==
    /\ is_initialized' = S.is_initialized
    /\ is_running' = S.is_running
    /\ current_session' = S.current_session
    /\ performance_stats' = S.performance_stats
    /\ recent_source_texts' = S.recent_source_texts
    /\ recent_translations' = S.recent_translations
    /\ status_callbacks' = S.status_callbacks
    /\ text_callbacks' = S.text_callbacks
    /\ translation_callbacks' = S.translation_callbacks
    /\ error_callbacks' = S.error_callbacks
    /\ audio_module' = S.audio_module
    /\ translation_module' = S.translation_module
    /\ tts_module' = S.tts_module
    /\ config' = S.config
    /\ ret' = S.ret
    /\ delivery' = S.delivery
    /\ speak_log' = S.speak_log
    /\ results' = S.results
    /\ stop_attempted' = S.stop_attempted
    /\ n_texts' = S.n_texts
    /\ reporting' = S.reporting
    /\ reports_done' = S.reports_done
    /\ playback_log' = S.playback_log
    /\ tts_stopped' = S.tts_stopped
    /\ immediate' = S.immediate
    /\ prepared' = S.prepared
    /\ fresh' = S.fresh
    /\ model_manager' = S.model_manager
    /\ status_file' = S.status_file
    /\ loaded' = S.loaded
    /\ downloads' = S.downloads
    /\ now' = S.now
    /\ audio_log' = S.audio_log
    /\ orphans' = S.orphans
    /\ manager_busy' = S.manager_busy
    /\ orphan_worker' = S.orphan_worker
    /\ audio_busy' = S.audio_busy
    /\ strategy' = S.strategy


\* ------------------------------------------------------- configuration
\* ModelConfig.__post_init__: the declared translation models, by language pair
translation_models ==
    [ lang_pair \in { "zh-en", "en-zh", "zh-ja", "ja-zh",
                      "en-ja", "ja-en", "zh-ko", "ko-zh" } |->
        CASE lang_pair = "zh-en" -> "Helsinki-NLP/opus-mt-zh-en"
          [] lang_pair = "en-zh" -> "Helsinki-NLP/opus-mt-en-zh"
          [] lang_pair = "zh-ja" -> "Helsinki-NLP/opus-mt-zh-ja"
          [] lang_pair = "ja-zh" -> "Helsinki-NLP/opus-mt-ja-zh"
          [] lang_pair = "en-ja" -> "Helsinki-NLP/opus-mt-en-ja"
          [] lang_pair = "ja-en" -> "Helsinki-NLP/opus-mt-ja-en"
          [] lang_pair = "zh-ko" -> "Helsinki-NLP/opus-mt-zh-ko"
          [] lang_pair = "ko-zh" -> "Helsinki-NLP/opus-mt-ko-zh" ]

\* The same lookup falling back to the default model for an undeclared pair
get_translation_model_DefaultModel(source_lang, target_lang) ==
    With(source_lang \o "-" \o target_lang, LAMBDA lang_pair :
    IF lang_pair \in DOMAIN translation_models
    THEN translation_models[lang_pair]
    ELSE "Helsinki-NLP/opus-mt-zh-en")

\* SystemConfig.get_translation_model: dict.get with the constructed identifier
\* as default
get_translation_model(source_lang, target_lang) ==
    With(source_lang \o "-" \o target_lang, LAMBDA lang_pair :
    IF lang_pair \in DOMAIN translation_models
    THEN translation_models[lang_pair]
    ELSE "Helsinki-NLP/opus-mt-" \o source_lang \o "-" \o target_lang)

\* SystemConfig.get_tts_voice
get_tts_voice(language) ==
    CASE language = "en" -> "en-US-AriaNeural"
      [] language = "zh" -> "zh-CN-XiaoxiaoNeural"
      [] language = "ja" -> "ja-JP-NanamiNeural"
      [] language = "ko" -> "ko-KR-SunHiNeural"
      [] language = "fr" -> "fr-FR-DeniseNeural"
      [] language = "de" -> "de-DE-KatjaNeural"
      [] language = "es" -> "es-ES-ElviraNeural"
      [] language = "ru" -> "ru-RU-SvetlanaNeural"
      [] OTHER -> "en-US-AriaNeural"

\* SystemConfig.update_language_pair
update_language_pair(S, source_lang, target_lang) ==
    [S EXCEPT !.config.source_language = source_lang,
              !.config.target_language = target_lang,
              !.config.model_name = get_translation_model(source_lang, target_lang),
              !.config.voice = get_tts_voice(target_lang)]

\* --------------------------------------------------- objects as built
NoSession ==
    [ active |-> FALSE, source_language |-> "", target_language |-> "",
      total_text_length |-> 0, total_translations |-> 0 ]

\* AudioCaptureModule.__init__ (created is FALSE while the coordinator holds None)
NewAudioModule(created) ==
    [ created |-> created, running |-> FALSE, asr_model |-> FALSE,
      vad_model |-> FALSE, punc_model |-> FALSE,
      thread |-> FALSE, stream |-> FALSE, is_speaking |-> FALSE,
      speech_buffer |-> 0, asr_cache |-> FALSE,
      current_sentence |-> <<>>, complete_transcript |-> <<>>,
      current_segment_start_time |-> NoTime, last_forced_segment_time |-> 0 ]

\* TranslationModule.__init__
NewTranslationModule(created) ==
    [ created |-> created, running |-> FALSE, model |-> "", thread |-> FALSE,
      translation_queue |-> <<>>, last_translated_text |-> <<>>,
      previous_context |-> <<>>, translated_cache |-> <<>>,
      translation_cache |-> <<>>,
      total_translations |-> 0, pending_init |-> <<>> ]

\* TextToSpeechModule.__init__
NewTtsModule(created, voice) ==
    [ created |-> created, running |-> FALSE, is_playing |-> FALSE,
      current_text |-> <<>>, tts_queue |-> <<>>, thread |-> FALSE,
      is_mixer_initialized |-> FALSE, voices_loaded |-> FALSE,
      current_voice |-> voice, worker |-> "idle", worker_text |-> <<>> ]

\* SimulTransStrategy.__init__(chunk_size, overlap), with the last incremental
\* text prepare_text_for_translation returned (none yet)
SimulTransStrategy(cs, ov) ==
    [ chunk_size |-> cs, overlap |-> ov, previous_context |-> <<>>,
      translated_cache |-> <<>>, returned |-> <<>> ]

\* SimulTransStrategy.__init__: the state of a strategy just constructed; built
\* is FALSE while no second strategy exists, dirty tells whether the first one
\* held a context or a cache entry when it was reset
NewStrategy(built, dirty) ==
    [ built |-> built, dirty |-> dirty,
      previous_context |-> <<>>, translated_cache |-> <<>>,
      prepared |-> [ some |-> FALSE, text |-> <<>> ] ]

\* ModelManager._load_model_status: the ledger read from the status file, empty
\* when the file is missing or unreadable
_load_model_status(file) ==
    IF file.exists /\ file.valid THEN file.content ELSE <<>>

\* ModelManager.__init__ over the status file found on disk.  constructed
\* numbers the model objects built so far, to tell them apart
NewModelManager(file, constructed) ==
    [ model_status |-> _load_model_status(file),
      model_cache |-> <<>>, tokenizer_cache |-> <<>>,
      constructed |-> constructed ]

NoFile == [ exists |-> FALSE, valid |-> FALSE, content |-> <<>> ]
NothingLoaded == [ raised |-> FALSE, model |-> 0, tokenizer |-> 0 ]

NoDelivery ==
    [ kind |-> "", event |-> <<>>, callbacks |-> <<>>, called |-> <<>>,
      escaped |-> FALSE ]
NoRet == [ op |-> "", val |-> FALSE, info |-> "", arg |-> <<>> ]

\* RealTimeTranslationPipeline.__init__, with the module-level config instance
Init ==
    /\ is_initialized = FALSE
    /\ is_running = FALSE
    /\ current_session = NoSession
    /\ performance_stats = [ sessions_count |-> 0, error_count |-> 0 ]
    /\ recent_source_texts = <<>>
    /\ recent_translations = <<>>
    /\ status_callbacks = <<>>
    /\ text_callbacks = <<>>
    /\ translation_callbacks = <<>>
    /\ error_callbacks = <<>>
    /\ audio_module = NewAudioModule(FALSE)
    /\ translation_module = NewTranslationModule(FALSE)
    /\ tts_module = NewTtsModule(FALSE, "en-US-AriaNeural")
    /\ config = [ source_language |-> "zh", target_language |-> "en",
                  model_name |-> "Helsinki-NLP/opus-mt-zh-en",
                  voice |-> "en-US-AriaNeural",
                  use_vad |-> TRUE, use_punctuation |-> TRUE ]
    /\ ret = NoRet
    /\ delivery = NoDelivery
    /\ speak_log = <<>>
    /\ results = <<>>
    /\ stop_attempted = {}
    /\ n_texts = 0
    /\ reporting = [ w \in Workers |-> [ pc |-> "idle", seen |-> 0 ] ]
    /\ reports_done = 0
    /\ playback_log = <<>>
    /\ tts_stopped = FALSE
    /\ immediate = [ some |-> FALSE, text |-> <<>> ]
    /\ prepared = [ some |-> FALSE, text |-> <<>> ]
    /\ fresh = NewStrategy(FALSE, FALSE)
    /\ status_file = NoFile
    /\ model_manager = NewModelManager(NoFile, 0)
    /\ loaded = NothingLoaded
    /\ downloads = [ attempted |-> {}, succeeded |-> {} ]
    /\ now = StartOfTime
    /\ audio_log = <<>>
    /\ orphans = [ w \in Workers |-> 0 ]
    /\ manager_busy = [ c \in Callers |-> Outside ]
    /\ orphan_worker = [ worker |-> "idle", text |-> <<>> ]
    /\ audio_busy = FALSE
    /\ strategy = SimulTransStrategy(chunk_size, overlap)

\* ------------------------------------------------------ event fan-out
\* for callback in callbacks: try: callback(...) except Exception: print(...)
\* An observer that raises is caught inside the loop, which goes on.
RECURSIVE NotifyFrom(_, _)
NotifyFrom(callbacks, i) ==
    IF i > Len(callbacks)
    THEN [ called |-> <<>>, escaped |-> FALSE ]
    ELSE With(NotifyFrom(callbacks, i + 1), LAMBDA rest :
         [ called |-> <<i>> \o rest.called, escaped |-> rest.escaped ])

\* The same loop without the try/except around each call: the first observer
\* that raises ends it
Notify_Unguarded(callbacks) ==
    With({ i \in 1..Len(callbacks) : callbacks[i] = "raise" }, LAMBDA bad :
    IF bad = {}
    THEN [ called |-> [ i \in 1..Len(callbacks) |-> i ], escaped |-> FALSE ]
    ELSE [ called |-> [ i \in 1..(CHOOSE b \in bad : \A c \in bad : b <= c) |-> i ],
           escaped |-> TRUE ])

Notify(callbacks) == NotifyFrom(callbacks, 1)

\* delivery keeps the last event fanned out to a list that has observers: the
\* list as it was, the observers called in order, and whether an exception left
\* the loop
FanOut(S, kind, callbacks, event) ==
    IF callbacks = <<>> THEN S
    ELSE With(Notify(callbacks), LAMBDA n :
         [S EXCEPT !.delivery = [ kind |-> kind, event |-> event,
                                  callbacks |-> callbacks,
                                  called |-> n.called, escaped |-> n.escaped ]])

\* RealTimeTranslationPipeline._report_status
_report_status(S, status) == FanOut(S, "status", S.status_callbacks, <<status>>)

\* RealTimeTranslationPipeline._report_error
_report_error(S, error_msg) ==
    With([S EXCEPT !.performance_stats.error_count = @ + 1], LAMBDA S1 :
    FanOut(S1, "error", S1.error_callbacks, error_msg))

\* The same update without the eviction
Remember_NoEviction(buffer, item) == Append(buffer, item)

\* list.append(x) followed by pop(0) when longer than max_context_items
Remember(buffer, item) ==
    IF Len(buffer) + 1 > max_context_items
    THEN Tail(Append(buffer, item))
    ELSE Append(buffer, item)

\* ------------------------------------------------ text-to-speech module
\* TextToSpeechModule._report_error -> error_callback = pipeline._on_tts_error
tts_report_error(S, msg) == _report_error(S, <<"tts", msg>>)

\* TextToSpeechModule._report_playback_status -> pipeline._on_tts_playback
_on_tts_playback(S, text, playing) ==
    With([S EXCEPT !.playback_log =
              Append(@, [ text |-> text, is_playing |-> playing ])], LAMBDA S1 :
    _report_status(S1, IF playing THEN "TTS playing" ELSE "TTS finished"))

\* The playback during which a task is enqueued: the place of its "playing"
\* status in playback_log, 0 when nothing is playing
Playing(S) == IF S.tts_module.is_playing THEN Len(S.playback_log) ELSE 0

\* The same operation without the test of the running flag
speak_NoRunningTest(S, text, priority) ==
    IF Strip(text) = <<>>
    THEN S
    ELSE [S EXCEPT !.tts_module.tts_queue =
             Append(@, [ text |-> text, priority |-> priority, stop |-> FALSE,
                         during |-> Playing(S) ])]

\* TextToSpeechModule.speak
speak(S, text, priority) ==
    IF ~S.tts_module.running
    THEN tts_report_error(S, "tts service not started")
    ELSE IF Strip(text) = <<>>
         THEN S
         ELSE [S EXCEPT !.tts_module.tts_queue =
                  Append(@, [ text |-> text, priority |-> priority, stop |-> FALSE,
                              during |-> Playing(S) ])]

\* TextToSpeechModule.stop_current_playback (mixer.music.stop() on the mixer
\* that is playing)
stop_current_playback(S) ==
    IF S.tts_module.is_playing
    THEN With([S EXCEPT !.tts_module.is_playing = FALSE], LAMBDA S1 :
         With(IF S1.tts_module.current_text # <<>>
              THEN _on_tts_playback(S1, S1.tts_module.current_text, FALSE)
              ELSE S1, LAMBDA S2 :
         [S2 EXCEPT !.tts_module.current_text = <<>>]))
    ELSE S

\* The same branch reporting the error only: the flag stays and no "finished"
\* status is reported
play_audio_failed_ErrorOnly(S, text) == tts_report_error(S, "playback error")

\* except Exception as e of _play_audio_from_memory
play_audio_failed(S, text) ==
    With(tts_report_error(S, "playback error"), LAMBDA S1 :
    _on_tts_playback([S1 EXCEPT !.tts_module.is_playing = FALSE,
                                !.tts_module.current_text = <<>>], text, FALSE))

\* _play_audio_from_memory up to mixer.music.play().  env.mixer_ok: mixer.init
\* succeeds; env.play_ok: mixer.music.load and play accept the audio.  playing is
\* TRUE when the wait for the end of the playback begins.
play_audio_start(S, text, env) ==
    IF ~S.tts_module.is_mixer_initialized /\ ~env.mixer_ok
    THEN [ playing |-> FALSE, S |-> tts_report_error(S, "mixer init failed") ]
    ELSE With(_on_tts_playback(
                  [S EXCEPT !.tts_module.is_mixer_initialized = TRUE,
                            !.tts_module.is_playing = TRUE,
                            !.tts_module.current_text = text], text, TRUE),
              LAMBDA S1 :
         IF env.play_ok
         THEN [ playing |-> TRUE, S |-> S1 ]
         ELSE [ playing |-> FALSE, S |-> play_audio_failed(S1, text) ])

\* _play_audio_from_memory from the wait on mixer.music.get_busy() on: end_ok is
\* FALSE when get_busy or unload raises
play_audio_end(S, text, end_ok) ==
    IF end_ok
    THEN _on_tts_playback([S EXCEPT !.tts_module.is_playing = FALSE,
                                    !.tts_module.current_text = <<>>], text, FALSE)
    ELSE play_audio_failed(S, text)

\* ---------------------------------------------------- translation module
\* TranslationModule._report_error -> pipeline._on_translation_error
translation_report_error(S, msg) == _report_error(S, <<"translation", msg>>)

\* The same test looking for a mark at the end of the text only
should_translate_MarkAtEnd(text, is_final, cs) ==
    is_final \/ Len(text) >= cs \/ EndsWithEnding(text)

\* SimulTransStrategy.should_translate
should_translate(text, is_final, cs) ==
    is_final \/ Len(text) >= cs \/ HasEnding(text)

\* str.rfind(' ', 0, stop): the 0-based position of the last blank before stop, or -1
RFindBlank(t, stop) ==
    With({ i \in 1..Len(t) : i <= stop /\ t[i] = " " }, LAMBDA hits :
    IF hits = {} THEN -1
    ELSE (CHOOSE i \in hits : \A j \in hits : j <= i) - 1)

\* The same operation taking the text verbatim for a final text only
prepare_text_for_translation_FinalOnly(previous_context, new_text, is_final, cs, ov) ==
    IF ~should_translate(new_text, is_final, cs)
    THEN [ some |-> FALSE, text |-> <<>>, previous_context |-> previous_context ]
    ELSE IF is_final
    THEN [ some |-> TRUE, text |-> new_text, previous_context |-> <<>> ]
    ELSE [ some |-> TRUE, text |-> previous_context \o new_text,
           previous_context |-> previous_context \o new_text ]

\* SimulTransStrategy.prepare_text_for_translation: the text to translate (some
\* is FALSE for None) and the context kept
\* s[start:] of Python: from position start, counted from the end when start is
\* negative
SliceFrom(s, start) ==
    IF start >= 0
    THEN SubSeq(s, start + 1, Len(s))
    ELSE SubSeq(s, (IF Len(s) + start > 0 THEN Len(s) + start ELSE 0) + 1, Len(s))

\* s[-n:] of Python: the last n items, and the whole of s when n is 0
SliceLast(s, n) == IF n = 0 THEN s ELSE SliceFrom(s, 0 - n)

prepare_text_for_translation(previous_context, new_text, is_final, cs, ov) ==
    IF ~should_translate(new_text, is_final, cs)
    THEN [ some |-> FALSE, text |-> <<>>, previous_context |-> previous_context ]
    ELSE IF is_final \/ EndsWithEnding(Strip(new_text))
    THEN [ some |-> TRUE, text |-> new_text, previous_context |-> <<>> ]
    ELSE With(previous_context \o new_text, LAMBDA joined :
         With(RFindBlank(joined, cs), LAMBDA space_pos :
         With(IF space_pos > cs - 20 THEN space_pos ELSE cs, LAMBDA cutoff_point :
         With(IF Len(joined) > cs + ov
              THEN SliceFrom(joined, cutoff_point)
              ELSE joined, LAMBDA t :
         [ some |-> TRUE, text |-> t,
           previous_context |->
               IF Len(t) > ov THEN SliceLast(t, ov) ELSE t ]))))

\* What the loaded model and tokenizer produce for a trimmed text: each letter
\* is rendered in the target language of the model
Glyph(model, c) ==
    IF c \in Blank \cup Endings THEN c
    ELSE IF model = "Helsinki-NLP/opus-mt-zh-en" THEN "E" \o c ELSE "Z" \o c

Decode(model, t) == [ i \in 1..Len(t) |-> Glyph(model, t[i]) ]

\* re.sub(r'([.!?]){2,}', r'\1', text): a run of marks becomes its last mark
RECURSIVE CollapseMarks(_)
CollapseMarks(t) ==
    IF Len(t) < 2 THEN t
    ELSE IF t[1] \in AsciiEndings /\ t[2] \in AsciiEndings
         THEN CollapseMarks(Tail(t))
         ELSE <<t[1]>> \o CollapseMarks(Tail(t))

\* TranslationModule._post_process_translation
_post_process_translation(translated_text) ==
    With(CollapseMarks(Strip(translated_text)), LAMBDA t :
    IF t # <<>> /\ ~EndsWithEnding(t) THEN Append(t, ".") ELSE t)

\* TranslationModule._translate_text: model_ok is FALSE when the tokenizer or the
\* model raises.  ok is FALSE for None.  The cache is looked up with the text as
\* given and filled under the trimmed text.
_translate_text(S, text, model_ok) ==
    With(S.translation_module, LAMBDA tm :
    IF Strip(text) = <<>>
    THEN [ ok |-> TRUE, text |-> <<>>, S |-> S ]
    ELSE IF text \in DOMAIN tm.translation_cache
    THEN [ ok |-> TRUE, text |-> tm.translation_cache[text], S |-> S ]
    ELSE IF ~model_ok
    THEN [ ok |-> FALSE, text |-> <<>>,
           S |-> translation_report_error(S, "translation error") ]
    ELSE With(Strip(text), LAMBDA key :
         With(_post_process_translation(Decode(tm.model, key)), LAMBDA translated :
         [ ok |-> TRUE, text |-> translated,
           S |-> [S EXCEPT !.translation_module.translation_cache =
                     [ k \in DOMAIN tm.translation_cache \cup {key} |->
                         IF k = key THEN translated
                         ELSE tm.translation_cache[k] ],
                           !.translation_module.total_translations = @ + 1] ])))

\* TranslationModule.translate_immediate
translate_immediate(S, text, model_ok) ==
    IF S.translation_module.model = ""
    THEN [ ok |-> FALSE, text |-> <<>>,
           S |-> translation_report_error(S, "model not initialized") ]
    ELSE _translate_text(S, text, model_ok)

\* TranslationModule.add_translation_task
add_translation_task(S, text, is_final) ==
    IF S.translation_module.running /\ Strip(text) # <<>>
    THEN [S EXCEPT !.translation_module.translation_queue =
              Append(@, [ text |-> text, is_final |-> is_final, stop |-> FALSE ])]
    ELSE S

\* ------------------------------------------------ coordinator handlers
\* RealTimeTranslationPipeline._on_text_recognized
_on_text_recognized(S, text, is_final) ==
    With(IF S.current_session.active
         THEN [S EXCEPT !.current_session.total_text_length = @ + Len(text)]
         ELSE S, LAMBDA S1 :
    With(IF is_final /\ Strip(text) # <<>>
         THEN [S1 EXCEPT !.recent_source_texts = Remember(@, Strip(text))]
         ELSE S1, LAMBDA S2 :
    With(FanOut(S2, "text", S2.text_callbacks, <<text, is_final>>), LAMBDA S3 :
    IF S3.translation_module.created /\ Strip(text) # <<>>
    THEN add_translation_task(S3, text, is_final)
    ELSE S3)))

\* The handler up to the notification of the translation observers
translation_result_noted(S, translated_text, is_final) ==
    With(IF S.current_session.active /\ is_final
         THEN [S EXCEPT !.current_session.total_translations = @ + 1]
         ELSE S, LAMBDA S1 :
    With(IF is_final /\ Strip(translated_text) # <<>>
         THEN [S1 EXCEPT !.recent_translations = Remember(@, Strip(translated_text))]
         ELSE S1, LAMBDA S2 :
    With(IF S2.current_session.active
         THEN [S2 EXCEPT !.results =
                   Append(@, [ text |-> translated_text, is_final |-> is_final ])]
         ELSE S2, LAMBDA S3 :
    FanOut(S3, "translation", S3.translation_callbacks,
           <<translated_text, is_final>>))))

\* The same handler speaking every non-blank result, final or not
_on_translation_result_SpeakInterim(S, translated_text, is_final) ==
    With(translation_result_noted(S, translated_text, is_final), LAMBDA S3 :
    IF S3.tts_module.created /\ Strip(translated_text) # <<>>
    THEN With([S3 EXCEPT !.speak_log =
                  Append(@, [ text |-> translated_text, is_final |-> is_final ])],
              LAMBDA S4 : speak(S4, translated_text, "normal"))
    ELSE S3)

\* RealTimeTranslationPipeline._on_translation_result
_on_translation_result(S, translated_text, is_final) ==
    With(translation_result_noted(S, translated_text, is_final), LAMBDA S3 :
    IF S3.tts_module.created /\ is_final /\ Strip(translated_text) # <<>>
    THEN With([S3 EXCEPT !.speak_log =
                  Append(@, [ text |-> translated_text, is_final |-> is_final ])],
              LAMBDA S4 : speak(S4, translated_text, "normal"))
    ELSE S3)

\* The same report made twice
_report_translation_Twice(S, translated_text, is_final) ==
    With(_on_translation_result(S, translated_text, is_final), LAMBDA S1 :
    _on_translation_result(S1, translated_text, is_final))

\* TranslationModule._report_translation
_report_translation(S, translated_text, is_final) ==
    _on_translation_result(S, translated_text, is_final)

\* The same body reporting every translation in full
translation_worker_task_AlwaysFull(S, task, model_ok) ==
    With(prepare_text_for_translation(S.translation_module.previous_context,
             task.text, task.is_final, chunk_size, overlap), LAMBDA p :
    With([S EXCEPT !.translation_module.previous_context = p.previous_context],
         LAMBDA S1 :
    IF ~p.some THEN S1
    ELSE
    With(_translate_text(S1, p.text, model_ok), LAMBDA r :
    IF ~r.ok THEN r.S
    ELSE
    With(_report_translation(r.S, r.text, task.is_final), LAMBDA S2 :
    [S2 EXCEPT !.translation_module.last_translated_text =
         IF task.is_final THEN <<>> ELSE r.text]))))

\* The body of the loop of TranslationModule.translation_worker for one task
translation_worker_task(S, task, model_ok) ==
    With(prepare_text_for_translation(S.translation_module.previous_context,
             task.text, task.is_final, chunk_size, overlap), LAMBDA p :
    With([S EXCEPT !.translation_module.previous_context = p.previous_context],
         LAMBDA S1 :
    IF ~p.some THEN S1
    ELSE
    With(_translate_text(S1, p.text, model_ok), LAMBDA r :
    IF ~r.ok THEN r.S
    ELSE
    With(r.S.translation_module.last_translated_text, LAMBDA last :
    With(Strip(SubSeq(r.text, Len(last) + 1, Len(r.text))), LAMBDA new_part :
    With(IF ~task.is_final /\ last # <<>>
         THEN IF StartsWith(r.text, last)
              THEN IF new_part # <<>>
                   THEN _report_translation(r.S, new_part, task.is_final)
                   ELSE r.S
              ELSE _report_translation(r.S, r.text, task.is_final)
         ELSE _report_translation(r.S, r.text, task.is_final), LAMBDA S2 :
    [S2 EXCEPT !.translation_module.last_translated_text =
         IF task.is_final THEN <<>> ELSE r.text]))))))


\* ---------------------------------------------------------- model manager
\* model_key in self.model_status and self.model_status[model_key].get("downloaded", False)
Downloaded(model_status, key) ==
    key \in DOMAIN model_status /\ model_status[key].downloaded

\* ModelManager.is_model_downloaded
is_model_downloaded(S, model_name, model_type) ==
    Downloaded(S.model_manager.model_status, Key(model_type, model_name))

\* ModelManager._save_model_status: open(self.status_file, 'w'), json.dump
_save_model_status(S, save) ==
    IF save = "open_fails" THEN S
    ELSE IF save = "write_fails"
    THEN [S EXCEPT !.status_file = [ exists |-> TRUE, valid |-> FALSE,
                                     content |-> <<>> ]]
    ELSE [S EXCEPT !.status_file = [ exists |-> TRUE, valid |-> TRUE,
                                     content |-> S.model_manager.model_status ]]

\* The body of download_funasr_model / download_translation_model.  fetch_ok is
\* FALSE when the constructor or from_pretrained raises, save tells what the
\* write of the status file does.  ok is the value returned.
download_model(S, model_type, model_name, fetch_ok, save) ==
    With([S EXCEPT !.downloads.attempted = @ \cup {Key(model_type, model_name)}],
         LAMBDA S0 :
    IF ~fetch_ok THEN [ ok |-> FALSE, S |-> S0 ]
    ELSE
    With([S0 EXCEPT !.model_manager.model_status =
              Put(@, Key(model_type, model_name),
                  [ downloaded |-> TRUE, model_type |-> model_type ])], LAMBDA S1 :
    With(_save_model_status(S1, save), LAMBDA S2 :
    IF save # "ok" THEN [ ok |-> FALSE, S |-> S2 ]
    ELSE [ ok |-> TRUE,
           S |-> [S2 EXCEPT !.downloads.succeeded =
                      @ \cup {Key(model_type, model_name)}] ])))

\* ModelManager.download_funasr_model
download_funasr_model(S, model_name, env) ==
    download_model(S, "funasr", model_name, env.fetch_ok, env.save)

\* ModelManager.download_translation_model
download_translation_model(S, model_name, env) ==
    download_model(S, "transformers", model_name, env.fetch_ok, env.save)

\* The try block of load_funasr_model: download when the ledger does not have
\* the model, construct it, cache it.  env.construct_ok is FALSE when AutoModel
\* raises.  model is the object returned, 0 for None.
funasr_model_constructed(S, model_name, env) ==
    With(IF is_model_downloaded(S, model_name, "funasr")
         THEN [ ok |-> TRUE, S |-> S ]
         ELSE download_funasr_model(S, model_name, env), LAMBDA d :
    IF ~d.ok \/ ~env.construct_ok
    THEN [ raised |-> FALSE, model |-> 0, S |-> d.S ]
    ELSE With(d.S.model_manager.constructed + 1, LAMBDA model :
         [ raised |-> FALSE, model |-> model,
           S |-> [d.S EXCEPT !.model_manager.model_cache =
                                 Put(@, Key("funasr", model_name), model),
                             !.model_manager.constructed = model] ]))

\* The same operation dropping the cached object before it reloads
load_funasr_model_EvictFirst(S, model_name, force_reload, env) ==
    With(Key("funasr", model_name), LAMBDA cache_key :
    IF ~force_reload /\ cache_key \in DOMAIN S.model_manager.model_cache
    THEN [ raised |-> FALSE, model |-> S.model_manager.model_cache[cache_key],
           S |-> S ]
    ELSE funasr_model_constructed(
             [S EXCEPT !.model_manager.model_cache =
                  [ k \in DOMAIN @ \ {cache_key} |-> @[k] ]],
             model_name, env))

\* ModelManager.load_funasr_model
load_funasr_model(S, model_name, force_reload, env) ==
    With(Key("funasr", model_name), LAMBDA cache_key :
    IF ~force_reload /\ cache_key \in DOMAIN S.model_manager.model_cache
    THEN [ raised |-> FALSE, model |-> S.model_manager.model_cache[cache_key],
           S |-> S ]
    ELSE funasr_model_constructed(S, model_name, env))

\* ModelManager.load_translation_model.  env.local_ok: the load from the local
\* directory works; env.construct_ok: the load by name works.  The cached pair
\* is returned outside the try: a model cached without its tokenizer raises.
load_translation_model(S, model_name, force_reload, env) ==
    With(Key("transformers", model_name), LAMBDA cache_key :
    With(Key("tokenizer", model_name), LAMBDA tokenizer_key :
    IF ~force_reload /\ cache_key \in DOMAIN S.model_manager.model_cache
    THEN IF tokenizer_key \in DOMAIN S.model_manager.tokenizer_cache
         THEN [ raised |-> FALSE,
                model |-> S.model_manager.model_cache[cache_key],
                tokenizer |-> S.model_manager.tokenizer_cache[tokenizer_key],
                S |-> S ]
         ELSE [ raised |-> TRUE, model |-> 0, tokenizer |-> 0, S |-> S ]
    ELSE
    With(IF is_model_downloaded(S, model_name, "transformers")
         THEN [ ok |-> TRUE, S |-> S ]
         ELSE download_translation_model(S, model_name, env), LAMBDA d :
    IF ~d.ok \/ (~env.local_ok /\ ~env.construct_ok)
    THEN [ raised |-> FALSE, model |-> 0, tokenizer |-> 0, S |-> d.S ]
    ELSE With(d.S.model_manager.constructed + 1, LAMBDA model :
         [ raised |-> FALSE, model |-> model, tokenizer |-> model,
           S |-> [d.S EXCEPT
                     !.model_manager.model_cache = Put(@, cache_key, model),
                     !.model_manager.tokenizer_cache = Put(@, tokenizer_key, model),
                     !.model_manager.constructed = model] ]))))

\* ModelManager.clear_cache
model_manager_clear_cache(S) ==
    [S EXCEPT !.model_manager.model_cache = <<>>,
              !.model_manager.tokenizer_cache = <<>>]

\* self._lock is held by some thread
LockHeld(S) == \E c \in Callers : S.manager_busy[c].locked

\* Thread c enters operation op of the manager: "with self._lock:" is the
\* first statement of the loads and of clear_cache, the downloads have none
manager_entered(S, c, op, model_name, force_reload) ==
    [S EXCEPT !.manager_busy[c] =
        [ op |-> op, locked |-> op \in LockingOps, name |-> model_name,
          force_reload |-> force_reload ]]

\* Thread c runs the operation it entered to its end and leaves it, releasing
\* the lock it took.  val is what the operation returns (a model for a load).
manager_left(S, c, env) ==
    With(S.manager_busy[c], LAMBDA b :
    With([S EXCEPT !.manager_busy[c] = Outside], LAMBDA S1 :
    CASE b.op = "load_funasr_model" ->
             With(load_funasr_model(S1, b.name, b.force_reload, env), LAMBDA r :
             [ S |-> r.S, val |-> r.model # 0 ])
      [] b.op = "load_translation_model" ->
             With(load_translation_model(S1, b.name, b.force_reload, env),
                  LAMBDA r : [ S |-> r.S, val |-> r.model # 0 ])
      [] b.op = "download_funasr_model" ->
             With(download_funasr_model(S1, b.name, env), LAMBDA r :
             [ S |-> r.S, val |-> r.ok ])
      [] b.op = "download_translation_model" ->
             With(download_translation_model(S1, b.name, env), LAMBDA r :
             [ S |-> r.S, val |-> r.ok ])
      [] OTHER -> [ S |-> model_manager_clear_cache(S1), val |-> TRUE ]))

\* self.audio_thread / translation_thread / tts_thread = threading.Thread(...);
\* .start(): the attribute now names the new thread.  A thread of the module
\* that was still alive goes on running its loop, no longer named by anything.
thread_started(S, w, alive) ==
    IF alive THEN [S EXCEPT !.orphans[w] = @ + 1] ELSE S

\* --------------------------------------------------- audio capture module
\* AudioCaptureModule._report_error -> pipeline._on_audio_error
audio_report_error(S, msg) == _report_error(S, <<"audio", msg>>)

\* AudioCaptureModule.start_capture.  env.thread_ok: Thread.start() succeeds;
\* env.stream_ok: the input stream opens.  The models are not looked at.
start_capture(S, env) ==
    IF S.audio_module.running THEN [ ok |-> TRUE, S |-> S ]
    ELSE With([S EXCEPT !.audio_module.speech_buffer = 0,
                        !.audio_module.asr_cache = FALSE,
                        !.audio_module.current_sentence = <<>>,
                        !.audio_module.complete_transcript = <<>>,
                        !.audio_module.is_speaking = ~S.config.use_vad,
                        !.audio_module.current_segment_start_time =
                            IF S.config.use_vad THEN NoTime ELSE S.now,
                        !.audio_module.last_forced_segment_time = S.now,
                        !.audio_module.running = TRUE], LAMBDA S1 :
         IF env.thread_ok /\ env.stream_ok
         THEN [ ok |-> TRUE,
                S |-> [thread_started(S1, "audio", S.audio_module.thread)
                       EXCEPT !.audio_module.thread = TRUE,
                              !.audio_module.stream = TRUE] ]
         ELSE With(audio_report_error(S1, "start capture failed"), LAMBDA S2 :
              [ ok |-> FALSE,
                S |-> [S2 EXCEPT !.audio_module.running = FALSE,
                                 !.audio_module.thread = env.thread_ok] ]))

\* AudioCaptureModule.process_asr_buffer(is_final=True) on an empty speech buffer
flush_sentence(S) ==
    IF ~S.audio_module.asr_model \/ S.audio_module.current_sentence = <<>>
    THEN S
    ELSE With(_on_text_recognized(S, S.audio_module.current_sentence, TRUE),
              LAMBDA S1 :
              [S1 EXCEPT !.audio_module.complete_transcript =
                             @ \o S.audio_module.current_sentence \o <<" ">>,
                         !.audio_module.current_sentence = <<>>,
                         !.audio_module.asr_cache = FALSE])

\* self.audio_thread.join(timeout=2): a thread between two turns of its loop
\* finds running false and leaves; one that is inside the recognizer outlasts
\* the timeout, and what join returned is not looked at
audio_joined(S) ==
    IF S.audio_busy THEN S ELSE [S EXCEPT !.audio_module.thread = FALSE]

\* AudioCaptureModule.stop_capture called on thread caller.  Thread.join() raises
\* RuntimeError when the caller is the thread joined.
stop_capture(S, caller) ==
    With([S EXCEPT !.audio_module.running = FALSE,
                   !.audio_module.stream = FALSE], LAMBDA S1 :
    IF S1.audio_module.thread /\ caller = "audio"
    THEN [ raised |-> TRUE, S |-> S1 ]
    ELSE With(audio_joined(S1), LAMBDA S2 :
         [ raised |-> FALSE,
           S |-> [flush_sentence(S2) EXCEPT !.audio_module.asr_cache = FALSE] ]))

\* ------------------------------------------- translation module services
\* The same operation clearing the cache only
reset_CacheOnly(S) == [S EXCEPT !.translation_module.translated_cache = <<>>]

\* SimulTransStrategy.reset
reset(S) ==
    [S EXCEPT !.translation_module.previous_context = <<>>,
              !.translation_module.translated_cache = <<>>]

\* TranslationModule.start_translation_service
start_translation_service(S, env) ==
    IF S.translation_module.running THEN [ ok |-> TRUE, S |-> S ]
    ELSE IF S.translation_module.model = ""
    THEN [ ok |-> FALSE, S |-> translation_report_error(S, "model not initialized") ]
    ELSE With(reset([S EXCEPT !.translation_module.translation_queue = <<>>]),
              LAMBDA S0 :
         With([S0 EXCEPT !.translation_module.last_translated_text = <<>>,
                         !.translation_module.running = TRUE], LAMBDA S1 :
         IF env.thread_ok
         THEN [ ok |-> TRUE,
                S |-> [thread_started(S1, "translation",
                                      S.translation_module.thread)
                       EXCEPT !.translation_module.thread = TRUE] ]
         ELSE [ ok |-> FALSE,
                S |-> translation_report_error(S1, "start service failed") ]))

StopSignal == [ text |-> <<>>, is_final |-> FALSE, stop |-> TRUE ]

\* TranslationModule.stop_translation_service called on thread caller
stop_translation_service(S, caller) ==
    With([S EXCEPT !.translation_module.running = FALSE,
                   !.translation_module.translation_queue = Append(@, StopSignal)],
         LAMBDA S1 :
    IF S1.translation_module.thread /\ caller = "translation"
    THEN [ raised |-> TRUE, S |-> S1 ]
    ELSE With(reset([S1 EXCEPT !.translation_module.thread = FALSE]), LAMBDA S2 :
         [ raised |-> FALSE,
           S |-> [S2 EXCEPT !.translation_module.last_translated_text = <<>>] ]))

\* TranslationModule.clear_cache
clear_cache(S) == reset([S EXCEPT !.translation_module.translation_cache = <<>>])

\* TranslationModule.change_language_pair called on thread caller.
\* asyncio.create_task raises RuntimeError when no event loop is running on the
\* calling thread; with one running, the model is initialized later, by the task.
translation_change_language_pair(S, source_lang, target_lang, env, caller) ==
    With(S.translation_module.running, LAMBDA was_running :
    With(IF was_running
         THEN stop_translation_service(S, caller)
         ELSE [ raised |-> FALSE, S |-> S ], LAMBDA st :
    IF st.raised THEN [ raised |-> TRUE, ok |-> FALSE, S |-> st.S ]
    ELSE
    With(clear_cache(st.S), LAMBDA S2 :
    IF ~env.loop_running
    THEN [ raised |-> TRUE, ok |-> FALSE, S |-> S2 ]
    ELSE With([S2 EXCEPT !.translation_module.pending_init =
                             Append(@, <<source_lang, target_lang>>)], LAMBDA S3 :
         IF was_running
         THEN With(start_translation_service(S3, env), LAMBDA r :
              [ raised |-> FALSE, ok |-> r.ok, S |-> r.S ])
         ELSE [ raised |-> FALSE, ok |-> TRUE, S |-> S3 ]))))

\* ---------------------------------------------------- TTS module services
\* TextToSpeechModule.start_tts_service.  env.mixer_ok: mixer.init() succeeds.
start_tts_service(S, env) ==
    IF S.tts_module.running THEN [ ok |-> TRUE, S |-> S ]
    ELSE IF ~S.tts_module.is_mixer_initialized /\ ~env.mixer_ok
    THEN [ ok |-> FALSE, S |-> tts_report_error(S, "mixer init failed") ]
    ELSE With([S EXCEPT !.tts_module.is_mixer_initialized = TRUE,
                        !.tts_module.tts_queue = <<>>,
                        !.tts_module.is_playing = FALSE,
                        !.tts_module.current_text = <<>>,
                        !.tts_module.running = TRUE,
                        !.tts_stopped = FALSE], LAMBDA S1 :
         IF env.thread_ok
         THEN [ ok |-> TRUE,
                S |-> [thread_started(S1, "tts", S.tts_module.thread)
                       EXCEPT !.tts_module.thread = TRUE] ]
         ELSE [ ok |-> FALSE, S |-> tts_report_error(S1, "start service failed") ])

\* self.tts_thread.join(timeout=3): an idle worker leaves its loop; one whose
\* playback was stopped ends _play_audio_from_memory, reporting the end of the
\* playback, and leaves; one that is synthesizing outlasts the timeout
tts_joined(S) ==
    CASE S.tts_module.worker = "idle" -> [S EXCEPT !.tts_module.thread = FALSE]
      [] S.tts_module.worker = "playing" ->
             With(_on_tts_playback(S, S.tts_module.worker_text, FALSE), LAMBDA S1 :
             [S1 EXCEPT !.tts_module.thread = FALSE,
                        !.tts_module.worker = "idle",
                        !.tts_module.worker_text = <<>>])
      [] OTHER -> S

\* TextToSpeechModule.stop_tts_service called on thread caller
stop_tts_service(S, caller) ==
    With([S EXCEPT !.tts_module.running = FALSE], LAMBDA S0 :
    With(stop_current_playback(S0), LAMBDA S1 :
    With([S1 EXCEPT !.tts_module.tts_queue =
             Append(@, [ text |-> <<>>, priority |-> "", stop |-> TRUE,
                         during |-> 0 ])], LAMBDA S2 :
    IF S2.tts_module.thread /\ caller = "tts"
    THEN [ raised |-> TRUE, S |-> S2 ]
    ELSE With(tts_joined(S2), LAMBDA S3 :
         [ raised |-> FALSE,
           S |-> [S3 EXCEPT !.tts_module.is_playing = FALSE,
                            !.tts_module.current_text = <<>>,
                            !.tts_stopped = TRUE] ]))))

\* TextToSpeechModule.set_voice_for_language.  asyncio.run raises RuntimeError
\* when called with an event loop running; the catalogue is keyed by locale
\* ("en-US"), so a language code ("en") finds no voice and the configured default
\* of the language is taken.
set_voice_for_language(S, language_code, env) ==
    IF ~S.tts_module.voices_loaded /\ env.loop_running
    THEN [ raised |-> TRUE, S |-> S ]
    ELSE With(IF ~S.tts_module.voices_loaded
              THEN IF env.voices_ok
                   THEN [S EXCEPT !.tts_module.voices_loaded = TRUE]
                   ELSE tts_report_error(S, "voice list failed")
              ELSE S, LAMBDA S1 :
         [ raised |-> FALSE,
           S |-> [S1 EXCEPT !.tts_module.current_voice = get_tts_voice(language_code),
                            !.config.voice = get_tts_voice(language_code)] ])

\* ------------------------------------------------ coordinator operations
Return(S, op, val, info) ==
    [S EXCEPT !.ret = [ op |-> op, val |-> val, info |-> info, arg |-> <<>> ]]

\* except Exception as e: self._report_error(...); return False
Failed(S, op, why) ==
    With(_report_error(S, <<"pipeline", op>>), LAMBDA S1 : Return(S1, op, FALSE, why))

\* RealTimeTranslationPipeline.initialize.  env.asr_ok, env.model_ok: the model
\* manager loads the recognizer / the translation model; env.voices_ok: the voice
\* catalogue is fetched.  initialize is a coroutine: an event loop is running.
initialize(S, source_lang, target_lang, env) ==
    With(_report_status(S, "initializing"), LAMBDA S0 :
    With(update_language_pair(S0, source_lang, target_lang), LAMBDA S1 :
    With([S1 EXCEPT !.audio_module = NewAudioModule(TRUE)], LAMBDA S2 :
    IF ~env.asr_ok
    THEN With(audio_report_error(S2, "model initialization failed"), LAMBDA X :
         Failed(X, "initialize", "audio"))
    ELSE
    With([S2 EXCEPT !.audio_module.asr_model = TRUE,
                    !.translation_module = NewTranslationModule(TRUE)], LAMBDA S3 :
    IF ~env.model_ok
    THEN With(translation_report_error(S3, "model initialization failed"), LAMBDA X :
         Failed(X, "initialize", "translation"))
    ELSE
    With([S3 EXCEPT !.translation_module.model = S3.config.model_name,
                    !.tts_module = NewTtsModule(TRUE, S3.config.voice)], LAMBDA S4 :
    With(IF env.voices_ok
         THEN [S4 EXCEPT !.tts_module.voices_loaded = TRUE]
         ELSE tts_report_error(S4, "voice list failed"), LAMBDA S5 :
    With(set_voice_for_language(S5, target_lang,
             [ loop_running |-> TRUE, voices_ok |-> env.voices_ok ]), LAMBDA v :
    IF v.raised
    THEN Failed(v.S, "initialize", "tts")
    ELSE With(_report_status([v.S EXCEPT !.is_initialized = TRUE], "initialized"),
              LAMBDA S6 : Return(S6, "initialize", TRUE, "initialized")))))))))

\* if self.<module>: self.<module>.stop...() inside stop_translation's try block
StopModule(S, name, created, r) ==
    IF created
    THEN [ raised |-> r.raised,
           S |-> [r.S EXCEPT !.stop_attempted = @ \cup {name}] ]
    ELSE [ raised |-> FALSE, S |-> S ]

\* RealTimeTranslationPipeline.stop_translation called on thread caller.  The three
\* module stops stand in one try block.
stop_translation(S, caller) ==
    IF ~S.is_running THEN S
    ELSE
    With(_report_status([S EXCEPT !.stop_attempted = {}], "stopping"), LAMBDA S0 :
    With(IF S0.audio_module.created
         THEN With(stop_capture(S0, caller), LAMBDA r :
                   StopModule(S0, "audio", TRUE, r))
         ELSE [ raised |-> FALSE, S |-> S0 ], LAMBDA a :
    IF a.raised THEN _report_error(a.S, <<"pipeline", "stop_translation">>)
    ELSE
    With(IF a.S.translation_module.created
         THEN With(stop_translation_service(a.S, caller), LAMBDA r :
                   StopModule(a.S, "translation", TRUE, r))
         ELSE a, LAMBDA t :
    IF t.raised THEN _report_error(t.S, <<"pipeline", "stop_translation">>)
    ELSE
    With(IF t.S.tts_module.created
         THEN With(stop_tts_service(t.S, caller), LAMBDA r :
                   StopModule(t.S, "tts", TRUE, r))
         ELSE t, LAMBDA u :
    IF u.raised THEN _report_error(u.S, <<"pipeline", "stop_translation">>)
    ELSE _report_status([u.S EXCEPT !.current_session = NoSession,
                                    !.is_running = FALSE],
                        "stopped")))))

\* The new TranslationSession of start_translation
NewSession(S) ==
    [ active |-> TRUE,
      source_language |-> S.config.source_language,
      target_language |-> S.config.target_language,
      total_text_length |-> 0, total_translations |-> 0 ]

\* start_translation past its two tests: the session, the three starts, and the
\* except branch, which reports the error and calls stop_translation()
start_modules(S, env) ==
    With(_report_status(S, "starting"), LAMBDA S0 :
    With([S0 EXCEPT !.current_session = NewSession(S0)], LAMBDA S1 :
    With(start_translation_service(S1, env), LAMBDA t :
    IF ~t.ok
    THEN With(_report_error(t.S, <<"pipeline", "start_translation">>), LAMBDA X :
         Return(stop_translation(X, "main"), "start_translation", FALSE,
                "translation_failed"))
    ELSE
    With(start_tts_service(t.S, env), LAMBDA u :
    IF ~u.ok
    THEN With(_report_error(u.S, <<"pipeline", "start_translation">>), LAMBDA X :
         Return(stop_translation(X, "main"), "start_translation", FALSE,
                "tts_failed"))
    ELSE
    With(start_capture(u.S, env), LAMBDA a :
    IF ~a.ok
    THEN With(_report_error(a.S, <<"pipeline", "start_translation">>), LAMBDA X :
         Return(stop_translation(X, "main"), "start_translation", FALSE,
                "audio_failed"))
    ELSE With(_report_status(
                  [a.S EXCEPT !.is_running = TRUE,
                              !.performance_stats.sessions_count = @ + 1],
                  "started"), LAMBDA S2 :
         Return(S2, "start_translation", TRUE, "started")))))))

\* The same operation without the test of is_running
start_translation_NoRunningTest(S, env) ==
    IF ~S.is_initialized
    THEN Failed(S, "start_translation", "not_initialized")
    ELSE start_modules(S, env)

\* RealTimeTranslationPipeline.start_translation
start_translation(S, env) ==
    IF ~S.is_initialized
    THEN Failed(S, "start_translation", "not_initialized")
    ELSE IF S.is_running
    THEN With(_report_status(S, "already running"), LAMBDA S0 :
         Return(S0, "start_translation", TRUE, "already_running"))
    ELSE start_modules(S, env)

\* change_language_pair up to the restart: stop if running, new configuration,
\* translation module switched, voice chosen
language_pair_changed(S, source_lang, target_lang, env) ==
    With(_report_status(S, "changing language pair"), LAMBDA S0 :
    With(IF S0.is_running THEN stop_translation(S0, "main") ELSE S0, LAMBDA S1 :
    With(update_language_pair(S1, source_lang, target_lang), LAMBDA S2 :
    With(IF S2.translation_module.created
         THEN translation_change_language_pair(S2, source_lang, target_lang,
                                               env, "main")
         ELSE [ raised |-> FALSE, ok |-> TRUE, S |-> S2 ], LAMBDA c :
    IF c.raised \/ ~c.ok THEN [ ok |-> FALSE, why |-> "translation", S |-> c.S ]
    ELSE
    With(IF c.S.tts_module.created
         THEN set_voice_for_language(c.S, target_lang, env)
         ELSE [ raised |-> FALSE, S |-> c.S ], LAMBDA v :
    [ ok |-> ~v.raised, why |-> "tts", S |-> v.S ])))))

\* The same operation without the restart of a pipeline that was running
change_language_pair_NoRestart(S, source_lang, target_lang, env) ==
    With(language_pair_changed(S, source_lang, target_lang, env), LAMBDA c :
    IF ~c.ok THEN Failed(c.S, "change_language_pair", c.why)
    ELSE With(_report_status(c.S, "language pair changed"), LAMBDA S1 :
         Return(S1, "change_language_pair", TRUE, "changed")))

\* RealTimeTranslationPipeline.change_language_pair
change_language_pair(S, source_lang, target_lang, env) ==
    With(language_pair_changed(S, source_lang, target_lang, env), LAMBDA c :
    IF ~c.ok THEN Failed(c.S, "change_language_pair", c.why)
    ELSE IF S.is_running
    THEN With(start_translation(c.S, env), LAMBDA r :
         Return(r, "change_language_pair", r.ret.val, r.ret.info))
    ELSE With(_report_status(c.S, "language pair changed"), LAMBDA S1 :
         Return(S1, "change_language_pair", TRUE, "changed")))

\* RealTimeTranslationPipeline.clear_context
clear_context(S) ==
    With(_report_status([S EXCEPT !.recent_source_texts = <<>>,
                                  !.recent_translations = <<>>],
                        "context cleared"), LAMBDA S1 :
    Return(S1, "clear_context", TRUE, ""))

\* emergency_stop past the stop of the playback
flags_forced(S) ==
    With(IF S.tts_module.created
         THEN [S EXCEPT !.tts_module.running = FALSE] ELSE S, LAMBDA S1 :
    With(IF S1.translation_module.created
         THEN [S1 EXCEPT !.translation_module.running = FALSE] ELSE S1, LAMBDA S2 :
    With(IF S2.audio_module.created
         THEN [S2 EXCEPT !.audio_module.running = FALSE] ELSE S2, LAMBDA S3 :
    With(_report_status([S3 EXCEPT !.is_running = FALSE], "emergency stop done"),
         LAMBDA S4 : Return(S4, "emergency_stop", TRUE, "")))))

\* The same operation without the stop of the playback in progress
emergency_stop_NoPlaybackStop(S) ==
    With(_report_status(S, "emergency stop"), LAMBDA S0 : flags_forced(S0))

\* RealTimeTranslationPipeline.emergency_stop
emergency_stop(S) ==
    With(_report_status(S, "emergency stop"), LAMBDA S0 :
    With(IF S0.tts_module.created THEN stop_current_playback(S0) ELSE S0, LAMBDA S1 :
    flags_forced(S1)))

\* ------------------------------------------------------- worker threads
\* What an operation without a return value leaves in ret
Did(S, op, info) == Return(S, op, TRUE, info)

\* int(self.sample_rate * self.audio_config.chunk_duration_ms / 1000), and the
\* same for the chunks given to the voice-activity detector
asr_chunk_samples == (sample_rate * chunk_duration_ms) \div 1000
vad_chunk_samples == (sample_rate * vad_chunk_duration_ms) \div 1000

\* What the punctuation model makes of a text
Punctuated(text) == text \o <<".">>

\* if use_punctuation and punc_model is not None: punc_res = punc_model.generate;
\* if punc_res and punc_res[0]["text"]: final_text = punc_res[0]["text"]
PunctuatedIfEnabled(S, text, env) ==
    IF S.config.use_punctuation /\ S.audio_module.punc_model /\ env.punc_ok
    THEN Punctuated(text) ELSE text

\* self._report_text(final_text, True); self.complete_transcript += final_text
\* + " "; self.current_sentence = ""
final_text_reported(S, final_text) ==
    With(_on_text_recognized([S EXCEPT !.n_texts = @ + 1], final_text, TRUE),
         LAMBDA S1 :
    [S1 EXCEPT !.audio_module.complete_transcript = @ \o final_text \o <<" ">>,
               !.audio_module.current_sentence = <<>>])

NoText == [ some |-> FALSE, text |-> <<>>, is_final |-> FALSE ]
FinalText(text) == [ some |-> TRUE, text |-> text, is_final |-> TRUE ]

\* AudioCaptureModule.process_asr_buffer.  env.asr_ok is FALSE when the
\* recognizer raises, env.asr_text is the text it yields (empty for none),
\* env.punc_ok is FALSE when the punctuation model yields nothing.  branch names
\* the path taken, said is the text reported.
process_asr_buffer(S, is_final, env) ==
    With(S.audio_module, LAMBDA am :
    IF ~am.asr_model THEN [ S |-> S, branch |-> "no_model", said |-> NoText ]
    ELSE IF am.speech_buffer = 0 /\ is_final
    THEN IF am.current_sentence # <<>>
         THEN With(PunctuatedIfEnabled(S, am.current_sentence, env),
                   LAMBDA final_text :
              [ S |-> [final_text_reported(S, final_text)
                       EXCEPT !.audio_module.asr_cache = FALSE],
                branch |-> "pending_flushed", said |-> FinalText(final_text) ])
         ELSE [ S |-> S, branch |-> "nothing_pending", said |-> NoText ]
    ELSE IF ~is_final /\ am.speech_buffer < asr_chunk_samples
    THEN [ S |-> S, branch |-> "short", said |-> NoText ]
    ELSE
    With(IF is_final THEN am.speech_buffer ELSE asr_chunk_samples,
         LAMBDA asr_chunk :
    With([S EXCEPT !.audio_module.speech_buffer = @ - asr_chunk], LAMBDA S1 :
    IF asr_chunk > 0
    THEN IF ~env.asr_ok
         THEN [ S |-> audio_report_error(S1, "ASR error"),
                branch |-> "error", said |-> NoText ]
         ELSE
         With([S1 EXCEPT !.audio_module.asr_cache = TRUE], LAMBDA S2 :
         With(IF env.asr_text # <<>>
              THEN IF S2.config.use_punctuation /\ am.punc_model /\ is_final
                   THEN With(am.current_sentence \o env.asr_text,
                             LAMBDA full_input :
                        With(IF env.punc_ok THEN Punctuated(full_input)
                             ELSE full_input, LAMBDA final_text :
                        [ S |-> final_text_reported(S2, final_text),
                          branch |-> "text", said |-> FinalText(final_text) ]))
                   ELSE IF ~is_final
                   THEN With(am.current_sentence \o env.asr_text,
                             LAMBDA sentence :
                        [ S |-> _on_text_recognized(
                                    [S2 EXCEPT !.audio_module.current_sentence =
                                         sentence, !.n_texts = @ + 1],
                                    sentence, FALSE),
                          branch |-> "text",
                          said |-> [ some |-> TRUE, text |-> sentence,
                                     is_final |-> FALSE ] ])
                   ELSE With(am.current_sentence \o env.asr_text,
                             LAMBDA final_text :
                        [ S |-> final_text_reported(S2, final_text),
                          branch |-> "text", said |-> FinalText(final_text) ])
              ELSE [ S |-> S2, branch |-> "no_text", said |-> NoText ],
              LAMBDA r :
         [ r EXCEPT !.S = IF is_final
                          THEN [r.S EXCEPT !.audio_module.asr_cache = FALSE]
                          ELSE r.S ]))
    ELSE IF is_final /\ am.current_sentence # <<>>
    THEN With(PunctuatedIfEnabled(S1, am.current_sentence, env),
              LAMBDA final_text :
         [ S |-> [final_text_reported(S1, final_text)
                  EXCEPT !.audio_module.asr_cache = FALSE],
           branch |-> "pending_after_empty_chunk",
           said |-> FinalText(final_text) ])
    ELSE [ S |-> IF is_final
                 THEN [S1 EXCEPT !.audio_module.asr_cache = FALSE] ELSE S1,
           branch |-> "empty_chunk", said |-> NoText ])))

\* What the recognizer and the punctuation model do during one call
AsrEnv(asr_ok, asr_text, punc_ok) ==
    [ asr_ok |-> asr_ok, asr_text |-> asr_text, punc_ok |-> punc_ok ]

\* The audio thread with one recognition chunk of speech in its buffer, which
\* the recognizer turns into segment_text: self.process_asr_buffer(is_final)
asr_chunk_recognized(S, segment_text, is_final) ==
    With(process_asr_buffer(
             [S EXCEPT !.audio_module.speech_buffer = asr_chunk_samples],
             is_final, AsrEnv(TRUE, segment_text, TRUE)), LAMBDA r :
    [r.S EXCEPT !.ret = [ op |-> "text", val |-> is_final, info |-> "",
                          arg |-> r.said.text ]])

\* AudioCaptureModule.initialize_models.  env.asr_ok, env.vad_ok, env.punc_ok:
\* the model manager returns the model.  A missing recognizer aborts, a missing
\* optional model switches its feature off in the configuration.
initialize_models(S, env) ==
    IF ~env.asr_ok
    THEN [ ok |-> FALSE,
           S |-> audio_report_error(S, "model initialization failed") ]
    ELSE
    With([S EXCEPT !.audio_module.asr_model = TRUE], LAMBDA S1 :
    With(IF ~S1.config.use_vad THEN S1
         ELSE IF env.vad_ok THEN [S1 EXCEPT !.audio_module.vad_model = TRUE]
         ELSE [S1 EXCEPT !.audio_module.vad_model = FALSE,
                         !.config.use_vad = FALSE], LAMBDA S2 :
    With(IF ~S2.config.use_punctuation THEN S2
         ELSE IF env.punc_ok THEN [S2 EXCEPT !.audio_module.punc_model = TRUE]
         ELSE [S2 EXCEPT !.audio_module.punc_model = FALSE,
                         !.config.use_punctuation = FALSE], LAMBDA S3 :
    [ ok |-> TRUE, S |-> S3 ])))

\* An entry of audio_log: ev is "speaking" or "silent" for an assignment to
\* is_speaking after a detector event, "timeout" for a forced segmentation;
\* flushed tells whether process_asr_buffer(is_final=True) was called with it
Logged(S, ev, flushed) ==
    [S EXCEPT !.audio_log = Append(@, [ ev |-> ev, flushed |-> flushed ])]

\* if len(self.speech_buffer) > 0: self.process_asr_buffer(is_final=True)
flushed_if_buffered(S, ev, env) ==
    IF S.audio_module.speech_buffer > 0
    THEN Logged(process_asr_buffer(S, TRUE, env).S, ev, TRUE)
    ELSE Logged(S, ev, FALSE)

\* for segment_info in vad_res[0]["value"]: the detector reports an onset
\* (start != -1, end == -1), an offset (start == -1, end != -1) or nothing
vad_event(S, env) ==
    With(S.audio_module, LAMBDA am :
    IF env.vad = "onset"
    THEN IF ~am.is_speaking
         THEN Logged([S EXCEPT !.audio_module.is_speaking = TRUE,
                               !.audio_module.current_segment_start_time = S.now],
                     "speaking", FALSE)
         ELSE S
    ELSE IF env.vad = "offset"
    THEN IF am.is_speaking
         THEN flushed_if_buffered(
                  [S EXCEPT !.audio_module.is_speaking = FALSE,
                            !.audio_module.current_segment_start_time = NoTime],
                  "silent", env.final)
         ELSE S
    ELSE S)

\* process_audio_thread, up to the recognition: the queue is drained and the
\* detector is given one chunk when env.chunk says one has arrived
audio_taken(S, env) ==
    IF S.config.use_vad /\ S.audio_module.vad_model
    THEN IF ~env.chunk THEN S
         ELSE With(vad_event(S, env), LAMBDA S1 :
              IF S1.audio_module.is_speaking
              THEN [S1 EXCEPT !.audio_module.speech_buffer = @ + vad_chunk_samples]
              ELSE S1)
    ELSE With(IF env.chunk
              THEN [S EXCEPT !.audio_module.speech_buffer = @ + vad_chunk_samples,
                             !.audio_module.current_segment_start_time =
                                 IF @ = NoTime THEN S.now ELSE @]
              ELSE S, LAMBDA S1 :
         [S1 EXCEPT !.audio_module.current_segment_start_time =
                        IF S1.audio_module.speech_buffer > 0 /\ @ = NoTime
                        THEN S1.now ELSE @,
                    !.audio_module.is_speaking = TRUE])

\* process_audio_thread, the check of the segment duration
segment_duration_checked(S, env) ==
    With(S.audio_module, LAMBDA am :
    IF am.is_speaking /\ am.current_segment_start_time # NoTime
    THEN With(S.now - am.current_segment_start_time, LAMBDA segment_duration :
         With(S.now - am.last_forced_segment_time, LAMBDA time_since_last_force :
         IF /\ segment_duration > max_segment_duration_seconds * TicksPerSecond
            /\ 2 * time_since_last_force
                  > max_segment_duration_seconds * TicksPerSecond
         THEN With(flushed_if_buffered(S, "timeout", env.final), LAMBDA S1 :
              [S1 EXCEPT !.audio_module.current_segment_start_time = S1.now,
                         !.audio_module.last_forced_segment_time = S1.now])
         ELSE S))
    ELSE S)

\* process_audio_thread: one turn of the loop, env.dt ticks after the last
process_audio_thread(S, env) ==
    With(audio_taken([S EXCEPT !.now = @ + env.dt], env), LAMBDA S1 :
    With(IF S1.audio_module.speech_buffer >= asr_chunk_samples
         THEN process_asr_buffer(S1, FALSE, env.asr).S
         ELSE S1, LAMBDA S2 :
    With(segment_duration_checked(S2, env), LAMBDA S3 :
    [S3 EXCEPT !.ret = [ op |-> "process_audio_thread", val |-> env.chunk,
                         info |-> env.vad, arg |-> <<>> ]])))

\* TranslationModule.translation_worker: one turn of the loop with a task waiting
translation_worker(S, model_ok) ==
    With(Head(S.translation_module.translation_queue), LAMBDA task :
    With([S EXCEPT !.translation_module.translation_queue = Tail(@)], LAMBDA S1 :
    IF task.stop
    THEN Did([S1 EXCEPT !.translation_module.thread = FALSE],
             "translation_worker", "stop")
    ELSE With(translation_worker_task(S1, task, model_ok), LAMBDA S2 :
         [S2 EXCEPT !.ret = [ op |-> "translation_worker", val |-> task.is_final,
                              info |-> IF model_ok THEN "ok" ELSE "failed",
                              arg |-> task.text ]])))

\* TranslationModule.initialize_model run by the task that change_language_pair
\* created.  load_ok is FALSE when the model manager returns (None, None).
initialize_model_task(S, load_ok) ==
    With(Head(S.translation_module.pending_init), LAMBDA pair :
    With(update_language_pair(
             [S EXCEPT !.translation_module.pending_init = Tail(@)],
             pair[1], pair[2]), LAMBDA S1 :
    IF S1.translation_module.model = S1.config.model_name
    THEN Did(S1, "initialize_model", "same")
    ELSE IF load_ok
    THEN Did([S1 EXCEPT !.translation_module.model = S1.config.model_name],
             "initialize_model", "loaded")
    ELSE With(translation_report_error(
                  [S1 EXCEPT !.translation_module.model = ""],
                  "model initialization failed"), LAMBDA S2 :
         Did(S2, "initialize_model", "failed"))))

\* TextToSpeechModule.tts_worker: a task is taken; _synthesize_speech begins
tts_worker_take(S) ==
    With(Head(S.tts_module.tts_queue), LAMBDA task :
    With([S EXCEPT !.tts_module.tts_queue = Tail(@)], LAMBDA S1 :
    IF task.stop
    THEN Did([S1 EXCEPT !.tts_module.thread = FALSE], "tts_worker", "stop")
    ELSE
    With(IF task.priority = "high" /\ S1.tts_module.is_playing
         THEN stop_current_playback(S1) ELSE S1, LAMBDA S2 :
    Did([S2 EXCEPT !.tts_module.worker = "synthesizing",
                   !.tts_module.worker_text = task.text],
        "tts_worker", "synthesizing"))))

\* _synthesize_speech has returned: None when env.synth_ok is FALSE, else the
\* audio, and _play_audio_from_memory starts the playback
tts_worker_play(S, env) ==
    With([S EXCEPT !.tts_module.worker = "idle",
                   !.tts_module.worker_text = <<>>], LAMBDA idle :
    IF ~env.synth_ok
    THEN Did(tts_report_error(idle, "synthesis error"), "tts_worker", "no_audio")
    ELSE With(play_audio_start(idle, S.tts_module.worker_text, env), LAMBDA r :
         IF r.playing
         THEN Did([r.S EXCEPT !.tts_module.worker = "playing",
                              !.tts_module.worker_text = S.tts_module.worker_text],
                  "tts_worker", "playing")
         ELSE Did(r.S, "tts_worker", "play_failed")))

\* _play_audio_from_memory once mixer.music.get_busy() is false or has raised.
\* The playback ran to its end when nobody stopped it (is_playing is still true).
tts_worker_finish(S, end_ok) ==
    With(play_audio_end(S, S.tts_module.worker_text, end_ok), LAMBDA S1 :
    Did([S1 EXCEPT !.tts_module.worker = "idle",
                   !.tts_module.worker_text = <<>>],
        "tts_worker",
        IF ~end_ok THEN "play_failed"
        ELSE IF S.tts_module.is_playing THEN "finished" ELSE "interrupted"))

\* tts_worker has no state but its locals: the same method run by the other
\* thread is the same steps with the two threads' positions exchanged
other_thread(S) ==
    [S EXCEPT !.tts_module.worker = S.orphan_worker.worker,
              !.tts_module.worker_text = S.orphan_worker.text,
              !.orphan_worker = [ worker |-> S.tts_module.worker,
                                  text |-> S.tts_module.worker_text ]]

\* tts_worker on a replaced thread: self.tts_queue.get(timeout=1.0) reads the
\* attribute at each turn, so the thread takes its tasks from the queue of the
\* service that was started after it; on None it breaks out of its loop
orphan_tts_worker_take(S) ==
    IF Head(S.tts_module.tts_queue).stop
    THEN Did([S EXCEPT !.tts_module.tts_queue = Tail(@), !.orphans["tts"] = @ - 1],
             "orphan_tts_worker", "stop")
    ELSE With(other_thread(tts_worker_take(other_thread(S))), LAMBDA S1 :
         Did(S1, "orphan_tts_worker", S1.ret.info))

orphan_tts_worker_play(S, env) ==
    With(other_thread(tts_worker_play(other_thread(S), env)), LAMBDA S1 :
    Did(S1, "orphan_tts_worker", S1.ret.info))

orphan_tts_worker_finish(S, end_ok) ==
    With(other_thread(tts_worker_finish(other_thread(S), end_ok)), LAMBDA S1 :
    Did(S1, "orphan_tts_worker", S1.ret.info))

\* The argument None of a text parameter
None == <<"None">>

\* TextToSpeechModule.speak_immediate.  text.strip() is evaluated before the try:
\* on None it raises AttributeError (info is "raised", nothing is returned).
\* env.loop_running: the caller is inside a running event loop, where
\* loop.run_until_complete raises RuntimeError.
speak_immediate(S, text, env) ==
    IF text = None
    THEN Return(S, "speak_immediate", FALSE, "raised")
    ELSE IF Strip(text) = <<>>
    THEN Return(S, "speak_immediate", FALSE, "blank")
    ELSE
    With(stop_current_playback(S), LAMBDA S1 :
    IF env.loop_running
    THEN Return(tts_report_error(S1, "immediate synthesis failed"),
                "speak_immediate", FALSE, "error")
    ELSE IF ~env.synth_ok
    THEN Return(tts_report_error(S1, "synthesis error"),
                "speak_immediate", FALSE, "no_audio")
    ELSE
    With(play_audio_start(S1, text, env), LAMBDA r :
    With(IF r.playing THEN play_audio_end(r.S, text, env.end_ok) ELSE r.S,
         LAMBDA S2 :
    Return(S2, "speak_immediate", TRUE,
           IF r.playing /\ env.end_ok THEN "played" ELSE "play_failed"))))

\* while self.running: a worker whose module is no longer running leaves its loop
thread_exit(S, w) ==
    Did(CASE w = "audio" -> [S EXCEPT !.audio_module.thread = FALSE]
          [] w = "translation" -> [S EXCEPT !.translation_module.thread = FALSE]
          [] w = "tts" -> [S EXCEPT !.tts_module.thread = FALSE],
        "thread_exit", w)

\* while self.running: a replaced worker thread whose module is not running
\* leaves its loop
orphan_exit(S, w) ==
    Did([S EXCEPT !.orphans[w] = @ - 1], "orphan_exit", w)

\* _report_error on worker thread w, first half of
\* self.performance_stats["error_count"] += 1: the value is read
report_error_read(S, w) ==
    Did([S EXCEPT !.reporting[w] =
             [ pc |-> "read", seen |-> S.performance_stats.error_count ]],
        "report_error_read", w)

\* Second half: the value read plus one is stored, then the observers are called
report_error_write(S, w) ==
    With([S EXCEPT !.performance_stats.error_count = S.reporting[w].seen + 1,
                   !.reporting[w] = [ pc |-> "idle", seen |-> 0 ],
                   !.reports_done = @ + 1], LAMBDA S1 :
    With(FanOut(S1, "error", S1.error_callbacks, <<w, "error">>), LAMBDA S2 :
    Did(S2, "report_error", w)))

\* add_status_callback, add_text_callback, add_translation_callback,
\* add_error_callback: list.append
add_callback(S, kind, callback) ==
    Did(CASE kind = "status" -> [S EXCEPT !.status_callbacks = Append(@, callback)]
          [] kind = "text" -> [S EXCEPT !.text_callbacks = Append(@, callback)]
          [] kind = "translation" ->
                 [S EXCEPT !.translation_callbacks = Append(@, callback)]
          [] kind = "error" -> [S EXCEPT !.error_callbacks = Append(@, callback)],
        "add_callback", kind)

\* ------------------------------------------------------------- guards
ThreadAlive(w) ==
    \/ w = "main"
    \/ w = "audio" /\ audio_module.thread
    \/ w = "translation" /\ translation_module.thread
    \/ w = "tts" /\ tts_module.thread

ModuleRunning(w) ==
    \/ w = "audio" /\ audio_module.running
    \/ w = "translation" /\ translation_module.running
    \/ w = "tts" /\ tts_module.running

\* No worker thread is inside _report_error
Quiet == \A w \in Workers : reporting[w].pc = "idle"

ErrorsBounded == performance_stats.error_count < MaxErrors

\* No module has MaxOrphans replaced threads alive
OrphansBounded == \A w \in Workers : orphans[w] < MaxOrphans

Registered ==
    Len(status_callbacks) + Len(text_callbacks)
        + Len(translation_callbacks) + Len(error_callbacks)

Env(thread_ok, mixer_ok, stream_ok, loop_running, voices_ok) ==
    [ thread_ok |-> thread_ok, mixer_ok |-> mixer_ok, stream_ok |-> stream_ok,
      loop_running |-> loop_running, voices_ok |-> voices_ok ]

TtsEnv(synth_ok, mixer_ok, play_ok, end_ok, loop_running) ==
    [ synth_ok |-> synth_ok, mixer_ok |-> mixer_ok, play_ok |-> play_ok,
      end_ok |-> end_ok, loop_running |-> loop_running ]

\* ------------------------------------------------------------ actions
\* await pipeline.initialize(source, target), called once at start-up
Initialize(pair, asr_ok, model_ok, voices_ok) ==
    /\ ~is_initialized
    /\ ~is_running
    /\ ErrorsBounded
    /\ \E S0 \in {Cur} :
       \E S \in { initialize(S0, pair[1], pair[2],
                      [ asr_ok |-> asr_ok, model_ok |-> model_ok,
                        voices_ok |-> voices_ok ]) } :
           Apply([S EXCEPT !.ret.arg = pair])

\* pipeline.initialize(source, target) called on a coordinator that a previous
\* call has initialized
InitializeAgain(pair, asr_ok, model_ok, voices_ok) ==
    /\ is_initialized
    /\ ~is_running
    /\ ErrorsBounded
    /\ \E S0 \in {Cur} :
       \E S \in { initialize(S0, pair[1], pair[2],
                      [ asr_ok |-> asr_ok, model_ok |-> model_ok,
                        voices_ok |-> voices_ok ]) } :
           Apply([S EXCEPT !.ret.arg = pair])

\* config.update_language_pair(source, target) called by a front end
UpdateLanguagePair(pair) ==
    \E S0 \in {Cur} :
    \E S \in { update_language_pair(S0, pair[1], pair[2]) } :
        Apply([S EXCEPT !.ret = [ op |-> "update_language_pair", val |-> TRUE,
                                  info |-> "", arg |-> pair ]])

\* config.get_translation_model(source_lang, target_lang)
GetTranslationModel(source_lang, target_lang) ==
    \E S0 \in {Cur} :
        Apply([S0 EXCEPT !.ret =
                  [ op |-> "get_translation_model", val |-> TRUE,
                    info |-> get_translation_model(source_lang, target_lang),
                    arg |-> <<source_lang, target_lang>> ]])

\* pipeline.start_translation() on the main thread
StartTranslation(thread_ok, mixer_ok, stream_ok) ==
    /\ OrphansBounded
    /\ performance_stats.sessions_count < MaxSessions
    /\ ErrorsBounded
    /\ \E S0 \in {Cur} :
       \E S \in { start_translation(S0,
                      Env(thread_ok, mixer_ok, stream_ok, FALSE, TRUE)) } : Apply(S)

\* pipeline.stop_translation() on thread caller: the main thread, or a worker
\* thread when an observer running on it calls stop_translation()
StopTranslation(caller) ==
    /\ ThreadAlive(caller)
    /\ ErrorsBounded
    /\ \E S0 \in {Cur} :
       \E S1 \in { stop_translation(S0, caller) } :
       \E S \in { Return(S1, "stop_translation", TRUE,
                         IF S0.is_running THEN "was_running" ELSE "idle") } :
           Apply(S)

\* pipeline.change_language_pair(source, target) on the main thread, inside a
\* coroutine (main.py: loop_running) or not (a plain call)
ChangeLanguagePair(pair, loop_running, stream_ok) ==
    /\ OrphansBounded
    /\ performance_stats.sessions_count < MaxSessions
    /\ ErrorsBounded
    /\ Len(translation_module.pending_init) < MaxPending
    /\ \E S0 \in {Cur} :
       \E S \in { change_language_pair(S0, pair[1], pair[2],
                      Env(TRUE, TRUE, stream_ok, loop_running, TRUE)) } :
           Apply([S EXCEPT !.ret.arg = pair])

\* pipeline.emergency_stop()
EmergencyStop ==
    \E S0 \in {Cur} : \E S \in { emergency_stop(S0) } : Apply(S)

\* pipeline.clear_context()
ClearContext ==
    \E S0 \in {Cur} : \E S \in { clear_context(S0) } : Apply(S)

\* The audio thread recognizes a chunk
AudioEmit(segment_text, is_final) ==
    /\ audio_module.thread
    /\ audio_module.running
    /\ audio_module.asr_model
    /\ n_texts < MaxTexts
    /\ \E S0 \in {Cur} :
       \E S \in { asr_chunk_recognized(S0, segment_text, is_final) } : Apply(S)

\* The audio thread enters process_asr_buffer and calls the recognizer
AudioRecognizerEnter ==
    /\ audio_module.thread
    /\ audio_module.running
    /\ audio_module.asr_model
    /\ ~audio_busy
    /\ n_texts < MaxTexts
    /\ \E S0 \in {Cur} :
       \E S \in { [S0 EXCEPT !.audio_busy = TRUE] } :
           Apply(Did(S, "process_asr_buffer", "entered"))

\* The recognizer returns and process_asr_buffer goes on to its end
AudioRecognizerLeave(segment_text, is_final) ==
    /\ audio_module.thread
    /\ audio_busy
    /\ \E S0 \in {Cur} :
       \E S \in { asr_chunk_recognized([S0 EXCEPT !.audio_busy = FALSE],
                                       segment_text, is_final) } : Apply(S)

\* The translation thread takes a task
TranslationWorker(model_ok) ==
    /\ translation_module.thread
    /\ translation_module.running
    /\ translation_module.translation_queue # <<>>
    /\ ErrorsBounded
    /\ \E S0 \in {Cur} :
       \E S \in { translation_worker(S0, model_ok) } : Apply(S)

\* translation_module.add_translation_task(text, is_final) called by a client
\* of the module
AddTranslationTask(text, is_final) ==
    /\ translation_module.created
    /\ n_texts < MaxTasks
    /\ \E S0 \in {Cur} :
       \E S \in { add_translation_task(S0, text, is_final) } :
           Apply([S EXCEPT !.n_texts = @ + 1,
                           !.ret = [ op |-> "add_translation_task",
                                     val |-> is_final, info |-> "",
                                     arg |-> text ]])

\* The event loop runs a task created by change_language_pair
InitializeModelTask(load_ok) ==
    /\ translation_module.pending_init # <<>>
    /\ ErrorsBounded
    /\ \E S0 \in {Cur} :
       \E S \in { initialize_model_task(S0, load_ok) } : Apply(S)

\* The TTS thread takes a task
TtsWorkerTake ==
    /\ tts_module.thread
    /\ tts_module.running
    /\ tts_module.worker = "idle"
    /\ tts_module.tts_queue # <<>>
    /\ \E S0 \in {Cur} : \E S \in { tts_worker_take(S0) } : Apply(S)

\* The synthesis of the TTS thread ends
TtsWorkerPlay(synth_ok, play_ok) ==
    /\ tts_module.thread
    /\ tts_module.worker = "synthesizing"
    /\ (synth_ok /\ play_ok) \/ ErrorsBounded
    /\ \E S0 \in {Cur} :
       \E S \in { tts_worker_play(S0,
                      TtsEnv(synth_ok, TRUE, play_ok, TRUE, FALSE)) } : Apply(S)

\* The playback of the TTS thread ends
TtsWorkerFinish(end_ok) ==
    /\ tts_module.thread
    /\ tts_module.worker = "playing"
    /\ end_ok \/ ErrorsBounded
    /\ \E S0 \in {Cur} : \E S \in { tts_worker_finish(S0, end_ok) } : Apply(S)

\* translation_module.translate_immediate(text) called by a client of the module
TranslateImmediate(text, model_ok) ==
    /\ translation_module.created
    /\ n_texts < MaxImmediate
    /\ ErrorsBounded
    /\ \E S0 \in {Cur} :
       \E r \in { translate_immediate(S0, text, model_ok) } :
           Apply([r.S EXCEPT !.n_texts = @ + 1,
                             !.immediate = [ some |-> r.ok, text |-> r.text ],
                             !.ret = [ op |-> "translate_immediate", val |-> r.ok,
                                       info |-> "", arg |-> text ]])

\* translation_module.clear_cache() called by a client of the module
ClearCache ==
    /\ translation_module.created
    /\ \E S0 \in {Cur} :
       \E S \in { clear_cache(S0) } : Apply(Return(S, "clear_cache", TRUE, ""))

\* strategy.should_translate(text, is_final) on the strategy of the translation
\* module, built with the configured chunk size
ShouldTranslate(text, is_final) ==
    \E S0 \in {Cur} :
        Apply([S0 EXCEPT !.ret =
                  [ op |-> "should_translate",
                    val |-> should_translate(text, is_final, chunk_size),
                    info |-> IF is_final THEN "final" ELSE "interim",
                    arg |-> text ]])

\* strategy.prepare_text_for_translation(text, is_final) on the strategy of the
\* translation module; a second strategy constructed at the last reset is given
\* the same call
PrepareText(text, is_final) ==
    /\ n_texts < MaxPrepare
    /\ \E S0 \in {Cur} :
       \E p \in { prepare_text_for_translation(
                      S0.translation_module.previous_context,
                      text, is_final, chunk_size, overlap) } :
       \E q \in { prepare_text_for_translation(
                      S0.fresh.previous_context,
                      text, is_final, chunk_size, overlap) } :
           Apply([S0 EXCEPT
               !.translation_module.previous_context = p.previous_context,
               !.prepared = [ some |-> p.some, text |-> p.text ],
               !.fresh = IF @.built
                         THEN [@ EXCEPT !.previous_context = q.previous_context,
                                        !.prepared = [ some |-> q.some,
                                                       text |-> q.text ]]
                         ELSE @,
               !.n_texts = @ + 1,
               !.ret = [ op |-> "prepare_text_for_translation", val |-> p.some,
                         info |-> IF is_final THEN "final" ELSE "interim",
                         arg |-> text ]])

\* strategy.reset(), and a second strategy constructed with the same chunk size
\* and overlap
StrategyReset ==
    \E S0 \in {Cur} :
    \E S \in { reset(S0) } :
        Apply(Return(
            [S EXCEPT !.prepared = [ some |-> FALSE, text |-> <<>> ],
                      !.fresh = NewStrategy(TRUE,
                          \/ S0.translation_module.previous_context # <<>>
                          \/ S0.translation_module.translated_cache # <<>>)],
            "reset", TRUE, ""))

\* SimulTransStrategy(chunk_size=cs, overlap=ov) constructed by a client
StrategyNew(cs, ov) ==
    /\ n_texts < MaxPrepare
    /\ \E S0 \in {Cur} :
           Apply(Return([S0 EXCEPT !.strategy = SimulTransStrategy(cs, ov)],
                        "SimulTransStrategy", TRUE, ""))

\* prepare_text_for_translation(text, is_final) on the client's strategy
StrategyPrepare(text, is_final) ==
    /\ n_texts < MaxPrepare
    /\ \E S0 \in {Cur} :
       \E p \in { prepare_text_for_translation(
                      S0.strategy.previous_context, text, is_final,
                      S0.strategy.chunk_size, S0.strategy.overlap) } :
           Apply([S0 EXCEPT
               !.strategy.previous_context = p.previous_context,
               !.strategy.returned =
                   IF p.some /\ p.previous_context # <<>> THEN p.text ELSE @,
               !.prepared = [ some |-> p.some, text |-> p.text ],
               !.n_texts = @ + 1,
               !.ret = [ op |-> "prepare_text_for_translation", val |-> p.some,
                         info |-> "", arg |-> text ]])

\* reset() on the client's strategy
StrategyClear ==
    \E S0 \in {Cur} :
        Apply(Return([S0 EXCEPT !.strategy.previous_context = <<>>,
                                !.strategy.translated_cache = <<>>],
                     "reset", TRUE, ""))

\* strategy.previous_context = ...; strategy.translated_cache["test"] = ...:
\* the fields of the strategy assigned from outside
StrategyAssign ==
    \E S0 \in {Cur} :
        Apply(Return(
            [S0 EXCEPT !.translation_module.previous_context = <<"c">>,
                       !.translation_module.translated_cache =
                           [ k \in {<<"t">>} |-> <<"c">> ],
                       !.fresh = NewStrategy(FALSE, FALSE)],
            "assign", TRUE, ""))

\* What the network, the runtimes and the disk do during one manager operation
ManagerEnv(fetch_ok, save, local_ok, construct_ok) ==
    [ fetch_ok |-> fetch_ok, save |-> save, local_ok |-> local_ok,
      construct_ok |-> construct_ok ]

ManagerRet(op, val, info, name) ==
    [ op |-> op, val |-> val, info |-> info, arg |-> <<name>> ]

\* The process ends and a new one constructs its ModelManager over the same
\* directory
ManagerRestart ==
    \E S0 \in {Cur} :
        Apply([S0 EXCEPT
            !.model_manager = NewModelManager(S0.status_file, @.constructed),
            !.loaded = NothingLoaded,
            !.ret = ManagerRet("ModelManager", TRUE, "", "")])

\* model_manager.is_model_downloaded(name, kind)
IsModelDownloaded(model_name, model_type) ==
    \E S0 \in {Cur} :
        Apply([S0 EXCEPT !.ret = ManagerRet("is_model_downloaded",
                   is_model_downloaded(S0, model_name, model_type),
                   model_type, model_name)])

\* model_manager.download_translation_model(name)
DownloadTranslationModel(model_name, fetch_ok, save) ==
    \E S0 \in {Cur} :
    \E r \in { download_translation_model(S0, model_name,
                   ManagerEnv(fetch_ok, save, TRUE, TRUE)) } :
        Apply([r.S EXCEPT !.ret = ManagerRet("download_translation_model",
                   r.ok, "", model_name)])

\* model_manager.download_funasr_model(name)
DownloadFunasrModel(model_name, fetch_ok, save) ==
    \E S0 \in {Cur} :
    \E r \in { download_funasr_model(S0, model_name,
                   ManagerEnv(fetch_ok, save, TRUE, TRUE)) } :
        Apply([r.S EXCEPT !.ret = ManagerRet("download_funasr_model",
                   r.ok, "", model_name)])

\* model_manager.load_funasr_model(name, force_reload)
LoadFunasrModel(model_name, force_reload, env) ==
    /\ model_manager.constructed < MaxLoads
    /\ \E S0 \in {Cur} :
       \E r \in { load_funasr_model(S0, model_name, force_reload, env) } :
           Apply([r.S EXCEPT
               !.loaded = [ raised |-> r.raised, model |-> r.model,
                            tokenizer |-> 0 ],
               !.ret = ManagerRet("load_funasr_model", r.model # 0,
                           IF force_reload THEN "force_reload" ELSE "",
                           model_name)])

\* model_manager.load_translation_model(name, force_reload)
LoadTranslationModel(model_name, force_reload, env) ==
    /\ model_manager.constructed < MaxLoads
    /\ \E S0 \in {Cur} :
       \E r \in { load_translation_model(S0, model_name, force_reload, env) } :
           Apply([r.S EXCEPT
               !.loaded = [ raised |-> r.raised, model |-> r.model,
                            tokenizer |-> r.tokenizer ],
               !.ret = ManagerRet("load_translation_model", r.model # 0,
                           IF force_reload THEN "force_reload" ELSE "",
                           model_name)])

\* model_manager.clear_cache()
ModelManagerClearCache ==
    \E S0 \in {Cur} :
    \E S \in { model_manager_clear_cache(S0) } :
        Apply([S EXCEPT !.ret = ManagerRet("clear_cache", TRUE, "", "")])

\* Thread c calls an operation of the model manager; a thread that needs the
\* lock waits while another holds it
ManagerEnter(c, op, model_name, force_reload) ==
    /\ manager_busy[c] = Outside
    /\ model_manager.constructed < MaxLoads
    /\ op \in LockingOps => ~LockHeld(Cur)
    /\ \E S0 \in {Cur} :
       \E S \in { manager_entered(S0, c, op, model_name, force_reload) } :
           Apply([S EXCEPT !.ret = ManagerRet("enter", TRUE, op, c)])

\* The operation thread c is inside comes to its end
ManagerLeave(c, env) ==
    /\ manager_busy[c] # Outside
    /\ \E S0 \in {Cur} :
       \E r \in { manager_left(S0, c, env) } :
           Apply([r.S EXCEPT !.ret = ManagerRet("leave", r.val,
                                        manager_busy[c].op, c)])

\* audio_module.initialize_models() called by a client of the module
InitializeModels(asr_ok, vad_ok, punc_ok) ==
    /\ audio_module.created
    /\ ~audio_module.running
    /\ ErrorsBounded
    /\ \E S0 \in {Cur} :
       \E r \in { initialize_models(S0, [ asr_ok |-> asr_ok, vad_ok |-> vad_ok,
                                          punc_ok |-> punc_ok ]) } :
           Apply(Return(r.S, "initialize_models", r.ok, ""))

\* The audio thread goes once round its loop
AudioThreadTurn(chunk, vad, asr, final, dt) ==
    /\ audio_module.thread
    /\ audio_module.running
    /\ now + dt <= StartOfTime + MaxTicks
    /\ n_texts < MaxTexts
    /\ Len(audio_log) < MaxLog
    /\ (asr.asr_ok /\ final.asr_ok) \/ ErrorsBounded
    /\ \E S0 \in {Cur} :
       \E S \in { process_audio_thread(S0, [ chunk |-> chunk, vad |-> vad,
                       asr |-> asr, final |-> final, dt |-> dt ]) } : Apply(S)

\* audio_module.process_asr_buffer(is_final) called as stop_capture calls it
ProcessAsrBuffer(is_final, env) ==
    /\ audio_module.created
    /\ n_texts < MaxTexts
    /\ env.asr_ok \/ ErrorsBounded
    /\ \E S0 \in {Cur} :
       \E r \in { process_asr_buffer(S0, is_final, env) } :
           Apply([r.S EXCEPT !.ret =
                     [ op |-> "process_asr_buffer", val |-> is_final,
                       info |-> r.branch, arg |-> r.said.text ]])

\* audio_module.start_capture() called by a client of the module
StartCapture(thread_ok, stream_ok) ==
    /\ OrphansBounded
    /\ audio_module.created
    /\ ErrorsBounded
    /\ \E S0 \in {Cur} :
       \E r \in { start_capture(S0, Env(thread_ok, TRUE, stream_ok, FALSE, TRUE)) } :
           Apply(Return(r.S, "start_capture", r.ok, ""))

\* audio_module.stop_capture() called by a client of the module on thread caller
StopCapture(caller) ==
    /\ audio_module.created
    /\ ThreadAlive(caller)
    /\ \E S0 \in {Cur} :
       \E r \in { stop_capture(S0, caller) } :
           Apply(Return(r.S, "stop_capture", ~r.raised,
                        IF r.raised THEN "raised" ELSE ""))

\* tts_module.speak(text, priority=priority) called by a client of the module
Speak(text, priority) ==
    /\ tts_module.created
    /\ n_texts < MaxSpeaks
    /\ ErrorsBounded
    /\ \E S0 \in {Cur} :
       \E S \in { speak(S0, text, priority) } :
           Apply([S EXCEPT !.n_texts = @ + 1,
                           !.ret = [ op |-> "speak", val |-> TRUE,
                                     info |-> priority, arg |-> text ]])

\* tts_module.stop_current_playback() called by a client of the module, on a
\* thread that is not the TTS thread
StopCurrentPlayback ==
    /\ tts_module.created
    /\ \E S0 \in {Cur} :
       \E S \in { stop_current_playback(S0) } :
           Apply(Return(S, "stop_current_playback", S0.tts_module.is_playing, ""))

\* tts_module.speak_immediate(text) called by a client of the module
SpeakImmediate(text, env) ==
    /\ tts_module.created
    /\ n_texts < MaxSpeaks
    /\ ErrorsBounded
    /\ \E S0 \in {Cur} :
       \E S \in { speak_immediate(S0, text, env) } :
           Apply([S EXCEPT !.n_texts = @ + 1, !.ret.arg = text])

\* tts_module.start_tts_service() called by a client of the module
StartTtsService(mixer_ok, thread_ok) ==
    /\ OrphansBounded
    /\ tts_module.created
    /\ ErrorsBounded
    /\ \E S0 \in {Cur} :
       \E r \in { start_tts_service(S0, Env(thread_ok, mixer_ok, TRUE, FALSE, TRUE)) } :
           Apply(Return(r.S, "start_tts_service", r.ok, ""))

\* tts_module.stop_tts_service() called by a client of the module on thread
\* caller: an exception of join leaves the call (info is "raised")
StopTtsService(caller) ==
    /\ tts_module.created
    /\ ThreadAlive(caller)
    /\ Len(tts_module.tts_queue) <= MaxSpeaks
    /\ \E S0 \in {Cur} :
       \E r \in { stop_tts_service(S0, caller) } :
           Apply(Return(r.S, "stop_tts_service", ~r.raised,
                        IF r.raised THEN "raised" ELSE ""))

\* A worker thread whose module is not running leaves its loop
ThreadExit(w) ==
    /\ ThreadAlive(w)
    /\ ~ModuleRunning(w)
    /\ w = "tts" => tts_module.worker = "idle"
    /\ w = "audio" => ~audio_busy
    /\ \E S0 \in {Cur} : \E S \in { thread_exit(S0, w) } : Apply(S)

\* A replaced worker thread whose module is not running leaves its loop
OrphanExit(w) ==
    /\ orphans[w] > 0
    /\ ~ModuleRunning(w)
    /\ w = "tts" => orphan_worker.worker = "idle"
    /\ \E S0 \in {Cur} : \E S \in { orphan_exit(S0, w) } : Apply(S)

\* A replaced TTS thread takes a task
OrphanTtsWorkerTake ==
    /\ orphans["tts"] > 0
    /\ tts_module.running
    /\ orphan_worker.worker = "idle"
    /\ tts_module.tts_queue # <<>>
    /\ \E S0 \in {Cur} : \E S \in { orphan_tts_worker_take(S0) } : Apply(S)

\* The synthesis of a replaced TTS thread ends
OrphanTtsWorkerPlay(synth_ok, play_ok) ==
    /\ orphans["tts"] > 0
    /\ orphan_worker.worker = "synthesizing"
    /\ (synth_ok /\ play_ok) \/ ErrorsBounded
    /\ \E S0 \in {Cur} :
       \E S \in { orphan_tts_worker_play(S0,
                      TtsEnv(synth_ok, TRUE, play_ok, TRUE, FALSE)) } : Apply(S)

\* The playback of a replaced TTS thread ends
OrphanTtsWorkerFinish(end_ok) ==
    /\ orphans["tts"] > 0
    /\ orphan_worker.worker = "playing"
    /\ end_ok \/ ErrorsBounded
    /\ \E S0 \in {Cur} :
       \E S \in { orphan_tts_worker_finish(S0, end_ok) } : Apply(S)

\* pipeline.add_<kind>_callback(callback)
AddCallback(kind, callback) ==
    /\ Registered < MaxCallbacks
    /\ \E S0 \in {Cur} : \E S \in { add_callback(S0, kind, callback) } : Apply(S)

\* The audio module hands the coordinator a recognized text
TextEvent(text, is_final, max) ==
    /\ n_texts < max
    /\ \E S0 \in {Cur} :
       \E S \in { _on_text_recognized(S0, text, is_final) } :
           Apply([S EXCEPT !.n_texts = @ + 1,
                           !.ret = [ op |-> "text", val |-> is_final, info |-> "",
                                     arg |-> text ]])

\* The translation module hands the coordinator a translation result
TranslationEvent(text, is_final, max) ==
    /\ n_texts < max
    /\ \E S0 \in {Cur} :
       \E S \in { _on_translation_result(S0, text, is_final) } :
           Apply([S EXCEPT !.n_texts = @ + 1,
                           !.ret = [ op |-> "translation", val |-> is_final,
                                     info |-> "", arg |-> text ]])

\* Worker thread w enters _report_error through its module's error callback
ErrBegin(w) ==
    /\ ThreadAlive(w)
    /\ reporting[w].pc = "idle"
    /\ reports_done + Cardinality({ v \in Workers : reporting[v].pc = "read" })
           < MaxReports
    /\ \E S0 \in {Cur} : \E S \in { report_error_read(S0, w) } : Apply(S)

\* Worker thread w stores the counter and calls the error observers
ErrEnd(w) ==
    /\ reporting[w].pc = "read"
    /\ \E S0 \in {Cur} : \E S \in { report_error_write(S0, w) } : Apply(S)

\* --------------------------------------------------------- specifications
\* The life cycle: initialization, start, stop, language change, with the
\* failures of the environment
NextLifecycle ==
    \/ \E pair \in LangPairs, asr_ok, model_ok, voices_ok \in BOOLEAN :
           Initialize(pair, asr_ok, model_ok, voices_ok)
    \/ \E thread_ok, mixer_ok, stream_ok \in BOOLEAN :
           StartTranslation(thread_ok, mixer_ok, stream_ok)
    \/ \E caller \in Threads : StopTranslation(caller)
    \/ \E pair \in LangPairs, loop_running, stream_ok \in BOOLEAN :
           ChangeLanguagePair(pair, loop_running, stream_ok)
    \/ \E load_ok \in BOOLEAN : InitializeModelTask(load_ok)
    \/ \E w \in Workers : ThreadExit(w)

SpecLifecycle == Init /\ [][NextLifecycle]_vars

\* The flow of one session in an environment without failures: recognized
\* texts, translation, speech, emergency stop
NextFlow ==
    \/ \E pair \in LangPairs : Initialize(pair, TRUE, TRUE, TRUE)
    \/ /\ performance_stats.sessions_count = 0
       /\ StartTranslation(TRUE, TRUE, TRUE)
    \/ \E segment_text \in Texts, is_final \in BOOLEAN :
           AudioEmit(segment_text, is_final)
    \/ TranslationWorker(TRUE)
    \/ TtsWorkerTake
    \/ TtsWorkerPlay(TRUE, TRUE)
    \/ TtsWorkerFinish(TRUE)
    \/ EmergencyStop
    \/ \E w \in Workers : ThreadExit(w)

SpecFlow == Init /\ [][NextFlow]_vars

\* The text-to-speech module used through its own interface, with the failures
\* of the synthesis, of the mixer and of the playback
NextTts ==
    \/ Initialize(<<"zh", "en">>, TRUE, TRUE, TRUE)
    \/ \E mixer_ok, thread_ok \in BOOLEAN : StartTtsService(mixer_ok, thread_ok)
    \/ \E caller \in {"main", "tts"} : StopTtsService(caller)
    \/ \E text \in TtsTexts, priority \in {"normal", "high"} : Speak(text, priority)
    \/ \E text \in TtsTexts \cup {None},
          synth_ok, mixer_ok, play_ok, end_ok, loop_running \in BOOLEAN :
              SpeakImmediate(text,
                  TtsEnv(synth_ok, mixer_ok, play_ok, end_ok, loop_running))
    \/ TtsWorkerTake
    \/ \E synth_ok, play_ok \in BOOLEAN : TtsWorkerPlay(synth_ok, play_ok)
    \/ \E end_ok \in BOOLEAN : TtsWorkerFinish(end_ok)
    \/ ThreadExit("tts")

SpecTts == Init /\ [][NextTts]_vars

\* The audio capture module used through its own interface, with and without
\* its models
NextAudio ==
    \/ \E pair \in LangPairs, asr_ok \in BOOLEAN : Initialize(pair, asr_ok, TRUE, TRUE)
    \/ \E thread_ok, stream_ok \in BOOLEAN : StartCapture(thread_ok, stream_ok)
    \/ \E caller \in {"main", "audio"} : StopCapture(caller)
    \/ \E segment_text \in Texts, is_final \in BOOLEAN :
           AudioEmit(segment_text, is_final)
    \/ ThreadExit("audio")

SpecAudio == Init /\ [][NextAudio]_vars

\* The configuration store under any language pair, set directly or through the
\* initialization of the pipeline
NextConfig ==
    \/ \E pair \in ConfigPairs : UpdateLanguagePair(pair)
    \/ \E source_lang, target_lang \in Languages :
           GetTranslationModel(source_lang, target_lang)
    \/ \E pair \in ConfigPairs, asr_ok, model_ok, voices_ok \in BOOLEAN :
           Initialize(pair, asr_ok, model_ok, voices_ok)

SpecConfig == Init /\ [][NextConfig]_vars

\* The translation module used through its synchronous interface
NextTranslate ==
    \/ \E pair \in LangPairs, model_ok \in BOOLEAN :
           Initialize(pair, TRUE, model_ok, TRUE)
    \/ \E text \in Texts, model_ok \in BOOLEAN : TranslateImmediate(text, model_ok)
    \/ ClearCache

SpecTranslate == Init /\ [][NextTranslate]_vars

\* The translation worker given interim and final tasks during one session,
\* with a model that translates or raises
NextWorker ==
    \/ Initialize(<<"zh", "en">>, TRUE, TRUE, TRUE)
    \/ /\ performance_stats.sessions_count = 0
       /\ StartTranslation(TRUE, TRUE, TRUE)
    \/ \E text \in WorkerTexts, is_final \in BOOLEAN :
           AddTranslationTask(text, is_final)
    \/ \E model_ok \in BOOLEAN : TranslationWorker(model_ok)

SpecWorker == Init /\ [][NextWorker]_vars

\* The worker threads across starts, stops, emergency stops and restarts of one
\* pipeline, with an utterance whose synthesis may outlast the join of the stop
NextThreads ==
    \/ Initialize(<<"zh", "en">>, TRUE, TRUE, TRUE)
    \/ StartTranslation(TRUE, TRUE, TRUE)
    \/ StopTranslation("main")
    \/ EmergencyStop
    \/ Speak(<<"a">>, "normal")
    \/ TtsWorkerTake
    \/ TtsWorkerPlay(TRUE, TRUE)
    \/ TtsWorkerFinish(TRUE)
    \/ \E w \in Workers : ThreadExit(w)
    \/ \E w \in Workers : OrphanExit(w)

SpecThreads == Init /\ [][NextThreads]_vars

\* The incremental strategy asked about any text
NextStrategy ==
    \E text \in StrategyTexts, is_final \in BOOLEAN : ShouldTranslate(text, is_final)

SpecStrategy == Init /\ [][NextStrategy]_vars

\* The incremental strategy given texts to prepare, reset, and assigned to
NextPrepare ==
    \/ \E text \in PrepareTexts, is_final \in BOOLEAN : PrepareText(text, is_final)
    \/ StrategyReset
    \/ StrategyAssign

SpecPrepare == Init /\ [][NextPrepare]_vars

\* The model manager used through its own interface, across restarts of the
\* process, with the failures of the network, of the runtimes and of the disk
NextManager ==
    \/ ManagerRestart
    \/ \E model_name \in ModelNames, model_type \in ModelKinds :
           IsModelDownloaded(model_name, model_type)
    \/ \E model_name \in ModelNames, fetch_ok \in BOOLEAN, save \in SaveOutcomes :
           DownloadTranslationModel(model_name, fetch_ok, save)
    \/ \E model_name \in ModelNames, fetch_ok \in BOOLEAN, save \in SaveOutcomes :
           DownloadFunasrModel(model_name, fetch_ok, save)
    \/ \E model_name \in ModelNames, force_reload, fetch_ok, construct_ok \in BOOLEAN,
          save \in SaveOutcomes :
           LoadFunasrModel(model_name, force_reload,
               ManagerEnv(fetch_ok, save, TRUE, construct_ok))
    \/ \E model_name \in ModelNames,
          force_reload, fetch_ok, local_ok, construct_ok \in BOOLEAN,
          save \in SaveOutcomes :
           LoadTranslationModel(model_name, force_reload,
               ManagerEnv(fetch_ok, save, local_ok, construct_ok))
    \/ ModelManagerClearCache

SpecManager == Init /\ [][NextManager]_vars

\* The model manager called by two threads at once
NextLock ==
    \/ \E c \in Callers, op \in ManagerOps, model_name \in ModelNames,
          force_reload \in BOOLEAN :
           ManagerEnter(c, op, model_name, force_reload)
    \/ \E c \in Callers, fetch_ok, construct_ok \in BOOLEAN, save \in SaveOutcomes :
           ManagerLeave(c, ManagerEnv(fetch_ok, save, TRUE, construct_ok))

SpecLock == Init /\ [][NextLock]_vars

\* The recognition loop of the audio thread over short utterances: detector
\* events and recognizer results, in less time than a tick of the clock
AsrTexts == { <<>>, <<"a">> }
NextRecognition ==
    \/ Initialize(<<"zh", "en">>, TRUE, TRUE, TRUE)
    \/ \E vad_ok, punc_ok \in BOOLEAN : InitializeModels(TRUE, vad_ok, punc_ok)
    \/ StartCapture(TRUE, TRUE)
    \/ \E chunk \in BOOLEAN, vad \in {"none", "onset", "offset"},
          asr_text, final_text \in AsrTexts, asr_ok \in BOOLEAN :
           AudioThreadTurn(chunk, vad, AsrEnv(TRUE, asr_text, TRUE),
                           AsrEnv(asr_ok, final_text, TRUE), 0)

SpecRecognition == Init /\ [][NextRecognition]_vars

\* The same loop, and process_asr_buffer called from outside the loop in
\* whatever state the buffer and the pending sentence are
NextFlush ==
    \/ NextRecognition
    \/ \E is_final \in BOOLEAN, asr_text \in AsrTexts, asr_ok, punc_ok \in BOOLEAN :
           ProcessAsrBuffer(is_final, AsrEnv(asr_ok, asr_text, punc_ok))

SpecFlush == Init /\ [][NextFlush]_vars

\* The recognition loop of the audio thread over long utterances: speech that
\* goes on, with or without the detector, while time passes
NextWatchdog ==
    \/ Initialize(<<"zh", "en">>, TRUE, TRUE, TRUE)
    \/ \E vad_ok \in BOOLEAN : InitializeModels(TRUE, vad_ok, TRUE)
    \/ StartCapture(TRUE, TRUE)
    \/ \E chunk \in BOOLEAN, vad \in {"none", "onset"},
          asr_text \in AsrTexts, dt \in {7, 8} :
           AudioThreadTurn(chunk, vad, AsrEnv(TRUE, asr_text, TRUE),
                           AsrEnv(TRUE, <<"a">>, TRUE), dt)

SpecWatchdog == Init /\ [][NextWatchdog]_vars

\* The context buffers under any sequence of events
NextContext ==
    \/ \E text \in ContextTexts, is_final \in BOOLEAN :
           TextEvent(text, is_final, MaxEvents)
    \/ \E text \in ContextTexts, is_final \in BOOLEAN :
           TranslationEvent(text, is_final, MaxEvents)
    \/ ClearContext

SpecContext == Init /\ [][NextContext]_vars

\* Observers, some of which raise, registered by the front end before it uses
\* the pipeline, and then the four kinds of event
NextCallbacks ==
    \/ \E kind \in {"status", "text", "translation", "error"},
          callback \in Behaviours :
              /\ ret.op \in {"", "add_callback"}
              /\ AddCallback(kind, callback)
    \/ \E is_final \in BOOLEAN : TextEvent(<<"a">>, is_final, MaxTexts)
    \/ \E is_final \in BOOLEAN : TranslationEvent(<<"a", ".">>, is_final, MaxTexts)
    \/ ClearContext
    \/ StartTranslation(TRUE, TRUE, TRUE)

SpecCallbacks == Init /\ [][NextCallbacks]_vars

\* Errors reported by the worker threads of a running pipeline
NextErrors ==
    \/ \E pair \in LangPairs : Initialize(pair, TRUE, TRUE, TRUE)
    \/ /\ is_initialized
       /\ StartTranslation(TRUE, TRUE, TRUE)
    \/ \E callback \in Behaviours : AddCallback("error", callback)
    \/ \E w \in Workers : ErrBegin(w)
    \/ \E w \in Workers : ErrEnd(w)

SpecErrors == Init /\ [][NextErrors]_vars

\* ---------------------------------------------------------------- claims
AllModules == {"audio", "translation", "tts"}

\* C1: when a module start fails inside start_translation() and it returns
\* false, the coordinator is not running, none of the three modules is running
\* and no session is active.
C1_FailedStartLeavesNothingStarted ==
    (ret.op = "start_translation" /\ ~ret.val
        /\ ret.info \in {"translation_failed", "tts_failed", "audio_failed"})
    => /\ ~is_running
       /\ ~audio_module.running
       /\ ~translation_module.running
       /\ ~tts_module.running
       /\ ~current_session.active

\* C2 as the specification states it: in a running pipeline a final non-blank
\* recognized segment is queued once and adds 1 to the session's
\* recognized-character counter; the translation of a final segment yields one
\* final translation result and one speak invocation and adds 1 to the session's
\* translation counter.
C2_CountersIncreaseByOne ==
    [][ /\ (ret'.op = "text" /\ ret'.val /\ Strip(ret'.arg) # <<>>
              /\ is_running /\ current_session.active)
           => /\ current_session'.total_text_length
                    = current_session.total_text_length + 1
              /\ translation_module'.translation_queue
                    = Append(translation_module.translation_queue,
                             [ text |-> ret'.arg, is_final |-> TRUE, stop |-> FALSE ])
        /\ (ret'.op = "translation_worker" /\ ret'.val /\ ret'.info = "ok"
              /\ is_running /\ current_session.active /\ tts_module.running)
           => /\ Len(results') = Len(results) + 1
              /\ results'[Len(results')].is_final
              /\ Len(speak_log') = Len(speak_log) + 1
              /\ current_session'.total_translations
                    = current_session.total_translations + 1
      ]_vars

\* C2, amended: in a running pipeline a final non-blank recognized segment is
\* queued once for translation and adds the number of its characters to the
\* session's recognized-character counter; the translation of a final segment
\* yields exactly one final translation result and exactly one speak invocation,
\* both carrying the translation of the trimmed segment, puts that text on the
\* TTS queue at normal priority, and adds 1 to the session's translation counter.
C2_FinalSegmentFlow ==
    [][ /\ (ret'.op = "text" /\ ret'.val /\ Strip(ret'.arg) # <<>>
              /\ is_running /\ current_session.active)
           => /\ current_session'.total_text_length
                    = current_session.total_text_length + Len(ret'.arg)
              /\ translation_module'.translation_queue
                    = Append(translation_module.translation_queue,
                             [ text |-> ret'.arg, is_final |-> TRUE, stop |-> FALSE ])
        /\ (ret'.op = "translation_worker" /\ ret'.val /\ ret'.info = "ok"
              /\ is_running /\ current_session.active /\ tts_module.running)
           => LET out == _post_process_translation(
                             Decode(translation_module.model, Strip(ret'.arg)))
              IN /\ results' = Append(results, [ text |-> out, is_final |-> TRUE ])
                 /\ speak_log' = Append(speak_log, [ text |-> out, is_final |-> TRUE ])
                 /\ tts_module'.tts_queue
                       = Append(tts_module.tts_queue,
                                [ text |-> out, priority |-> "normal", stop |-> FALSE,
                                  during |-> IF tts_module.is_playing
                                             THEN Len(playback_log) ELSE 0 ])
                 /\ current_session'.total_translations
                       = current_session.total_translations + 1
      ]_vars

\* A final segment of more than one character has been recognized, translated
\* and handed to speak() in a running pipeline
C2_Witness ==
    /\ ret.op = "translation_worker" /\ ret.val /\ ret.info = "ok"
    /\ Len(Strip(ret.arg)) > 1
    /\ is_running
    /\ current_session.total_translations = 1
    /\ current_session.total_text_length >= Len(ret.arg)
    /\ Len(speak_log) = 1
    /\ Len(tts_module.tts_queue) = 1

\* C3: when stop_translation() runs on a running pipeline, the stop of audio
\* capture, of the translation service and of the TTS service is attempted in
\* every case, also when one of them fails.
C3_EveryModuleStopAttempted ==
    (ret.op = "stop_translation" /\ ret.info = "was_running")
    => stop_attempted = AllModules

\* C4: start_translation() on a pipeline that is not initialized returns false
\* and reports an error, on a running pipeline it returns true; in both cases it
\* starts no module, creates no session and leaves the session counter unchanged.
C4_StartIsNoOp ==
    [][ (ret'.op = "start_translation" /\ (~is_initialized \/ is_running))
        => /\ audio_module' = audio_module
           /\ translation_module' = translation_module
           /\ tts_module' = tts_module
           /\ current_session' = current_session
           /\ is_running' = is_running
           /\ performance_stats'.sessions_count = performance_stats.sessions_count
           /\ ~is_initialized
              => /\ ~ret'.val
                 /\ performance_stats'.error_count
                       = performance_stats.error_count + 1
           /\ is_initialized
              => /\ ret'.val
                 /\ performance_stats'.error_count = performance_stats.error_count
      ]_vars

\* start_translation() has returned from a pipeline that was already running,
\* after an earlier call was refused before initialization
C4_Witness ==
    /\ ret.op = "start_translation" /\ ret.info = "already_running" /\ ret.val
    /\ is_running
    /\ performance_stats.sessions_count = 1
    /\ performance_stats.error_count > 0

\* C5: the coordinator calls speak() only for translation results that are
\* final and non-blank: every speak invocation carries a final, non-blank result,
\* and there are no more of them than final results.
C5_OnlyFinalResultsSpoken ==
    /\ \A i \in 1..Len(speak_log) :
           speak_log[i].is_final /\ Strip(speak_log[i].text) # <<>>
    /\ Len(speak_log) <= Cardinality({ i \in 1..Len(results) : results[i].is_final })

\* An interim non-blank result was handled without a speak invocation, and a
\* final one with
C5_Witness ==
    /\ \E i \in 1..Len(results) :
           ~results[i].is_final /\ Strip(results[i].text) # <<>>
    /\ \E i \in 1..Len(results) : results[i].is_final
    /\ Len(results) = 2
    /\ Len(speak_log) = 1

\* C6: when emergency_stop() has returned, is_running and the running flags of
\* the audio, translation and TTS modules are false, and no playback is in
\* progress (is_playing is false).
C6_EmergencyStopForcesFlags ==
    ret.op = "emergency_stop"
    => /\ ~is_running
       /\ ~audio_module.running
       /\ ~translation_module.running
       /\ ~tts_module.running
       /\ ~tts_module.is_playing

\* emergency_stop() has returned while the TTS thread was playing a text
C6_Witness ==
    /\ ret.op = "emergency_stop"
    /\ tts_module.worker = "playing"
    /\ tts_module.worker_text # <<>>
    /\ tts_module.thread

\* C7: an event fanned out to a callback list reaches every callback of the
\* list, in registration order, whichever of them raise, and no exception leaves
\* the loop.
C7_DeliveryReachesEveryCallback ==
    delivery.kind # ""
    => /\ delivery.called = [ i \in 1..Len(delivery.callbacks) |-> i ]
       /\ ~delivery.escaped

\* A text event went to three observers of which the first raises
C7_Witness ==
    /\ delivery.kind = "text"
    /\ Len(delivery.callbacks) = 3
    /\ delivery.callbacks[1] = "raise"
    /\ delivery.callbacks[3] = "ok"
    /\ delivery.called = <<1, 2, 3>>

\* C8: error_count equals the number of errors reported through the modules'
\* error callbacks, also when the worker threads report concurrently.
C8_ErrorCountEqualsReports ==
    Quiet => performance_stats.error_count = reports_done

\* C9: each event leaves in the context buffers at most 5 entries; a final
\* non-blank text is appended, trimmed, and the oldest entry leaves when there
\* would be 6; other events leave the buffer as it is; clear_context() empties
\* both buffers.
C9_ContextBuffersBounded ==
    [][ LET Kept(buffer, item) ==
                LET all == Append(buffer, item)
                IN IF Len(all) <= 5 THEN all ELSE SubSeq(all, Len(all) - 4, Len(all))
            Counts == ret'.val /\ Strip(ret'.arg) # <<>>
        IN /\ Len(recent_source_texts') <= 5
           /\ Len(recent_translations') <= 5
           /\ ret'.op = "text"
              => /\ recent_source_texts' =
                        IF Counts THEN Kept(recent_source_texts, Strip(ret'.arg))
                        ELSE recent_source_texts
                 /\ recent_translations' = recent_translations
           /\ ret'.op = "translation"
              => /\ recent_translations' =
                        IF Counts THEN Kept(recent_translations, Strip(ret'.arg))
                        ELSE recent_translations
                 /\ recent_source_texts' = recent_source_texts
           /\ ret'.op = "clear_context"
              => recent_source_texts' = <<>> /\ recent_translations' = <<>>
      ]_vars

\* The source buffer is full after more final texts than it holds, the last of
\* which is its newest entry
C9_Witness ==
    /\ n_texts = MaxEvents
    /\ n_texts > max_context_items
    /\ recent_translations = <<>>
    /\ Len(recent_source_texts) = max_context_items
    /\ ret.op = "text" /\ ret.val
    /\ recent_source_texts[max_context_items] = Strip(ret.arg)
    /\ recent_source_texts[1] # recent_source_texts[max_context_items]

C11_PlaybackErrorStillFinishes ==
    /\ tts_module.worker # "playing" => ~tts_module.is_playing
    /\ ret.info = "play_failed" =>
           /\ ~tts_module.is_playing
           /\ playback_log # <<>> => ~playback_log[Len(playback_log)].is_playing
    /\ \A i \in 1..Len(playback_log) :
           playback_log[i].is_playing =>
               \/ \E j \in (i + 1)..Len(playback_log) :
                      /\ ~playback_log[j].is_playing
                      /\ playback_log[j].text = playback_log[i].text
               \/ /\ tts_module.worker = "playing"
                  /\ tts_module.worker_text = playback_log[i].text

\* A playback of the worker failed after its "playing" status was reported
C11_Witness ==
    /\ ret.op = "tts_worker"
    /\ ret.info = "play_failed"
    /\ Len(playback_log) >= 2
    /\ playback_log[Len(playback_log) - 1] = [ text |-> <<"a">>, is_playing |-> TRUE ]
    /\ playback_log[Len(playback_log)] = [ text |-> <<"a">>, is_playing |-> FALSE ]
    /\ performance_stats.error_count > 0

\* C12: a high-priority speak request issued while an utterance is playing stops
\* that playback instead of waiting for its end: a playback of the worker never
\* runs to its end while a high-priority task enqueued during it waits in the
\* queue.
C12_HighPriorityPreempts ==
    (ret.op = "tts_worker" /\ ret.info = "finished")
    => \A i \in 1..Len(tts_module.tts_queue) :
           ~ /\ tts_module.tts_queue[i].priority = "high"
             /\ tts_module.tts_queue[i].during = Len(playback_log) - 1

\* C13: once stop_tts_service() has returned, and until the service is started
\* again, the service is not running, is_playing is false and the worker starts
\* no playback (reports no "playing" status).
C13_NothingPlaysAfterStop ==
    tts_stopped
    => /\ ~tts_module.running
       /\ ~tts_module.is_playing
       /\ ~(ret.op = "tts_worker" /\ ret.info = "playing")

\* C14: speak_immediate(text) with an empty, blank or absent (None) text returns
\* false without attempting the synthesis and without raising.
C14_BlankImmediateReturnsFalse ==
    (ret.op = "speak_immediate" /\ (ret.arg = None \/ Strip(ret.arg) = <<>>))
    => /\ ~ret.val
       /\ ret.info = "blank"

\* C15: speak_immediate(text) returns true only if the synthesis and the playback
\* both succeeded.
C15_ImmediateTrueOnlyIfPlayed ==
    (ret.op = "speak_immediate" /\ ret.val) => ret.info = "played"

\* A step of speak(): the request counter moves and ret names speak
C16_SpeakStep == ret'.op = "speak" /\ n_texts' = n_texts + 1

\* C16: speak() enqueues nothing and reports an error whenever the service is not
\* running or the text is blank.
C16_RefusedSpeakReportsError ==
    [][ (C16_SpeakStep /\ (~tts_module.running \/ Strip(ret'.arg) = <<>>))
        => /\ tts_module'.tts_queue = tts_module.tts_queue
           /\ performance_stats'.error_count = performance_stats.error_count + 1
      ]_vars

\* C16 as the code has it: speak() enqueues nothing whenever the service is not
\* running or the text is blank; it reports an error when the service is not
\* running, and ignores a blank text of a running service without a report; any
\* other request is appended to the queue.
C16_RefusedSpeakEnqueuesNothing ==
    [][ C16_SpeakStep
        => IF ~tts_module.running
           THEN /\ tts_module'.tts_queue = tts_module.tts_queue
                /\ performance_stats'.error_count =
                       performance_stats.error_count + 1
           ELSE /\ performance_stats'.error_count = performance_stats.error_count
                /\ IF Strip(ret'.arg) = <<>>
                   THEN tts_module'.tts_queue = tts_module.tts_queue
                   ELSE /\ Len(tts_module'.tts_queue) =
                              Len(tts_module.tts_queue) + 1
                        /\ tts_module'.tts_queue[Len(tts_module'.tts_queue)].text
                              = ret'.arg
      ]_vars

\* A refused request of each kind: the first speak() met a stopped service and
\* reported the one error, the second brought a blank text to the running service
C16_Witness ==
    /\ ret.op = "speak"
    /\ ret.arg = <<" ">>
    /\ n_texts = 2
    /\ tts_module.running
    /\ tts_module.tts_queue = <<>>
    /\ performance_stats.error_count = 1

\* C17: start_capture() on an audio capture module whose models were never
\* initialized returns false and leaves the module not running, with no
\* processing thread and no input stream.
C17_UninitializedCaptureRefuses ==
    (ret.op = "start_capture" /\ ~audio_module.asr_model)
    => /\ ~ret.val
       /\ ~audio_module.running
       /\ ~audio_module.thread
       /\ ~audio_module.stream

\* C18: for every language pair with source equal to target, update_language_pair
\* and the initialization with that pair leave the configuration as (zh, en)
\* would: the model identifier is Helsinki-NLP/opus-mt-zh-en, never a
\* same-language identifier.
C18_SameLanguageFallsBack ==
    (/\ ret.op \in {"update_language_pair", "initialize"}
     /\ Len(ret.arg) = 2
     /\ ret.arg[1] = ret.arg[2])
    => /\ config.source_language = "zh"
       /\ config.target_language = "en"
       /\ config.model_name = "Helsinki-NLP/opus-mt-zh-en"

\* C19: translating the same non-blank text twice in succession through
\* translate_immediate (both calls returning a translation) returns the same
\* output, and the second call is answered from the cache: total_translations
\* does not increase.
C19_SecondTranslationFromCache ==
    [][ (/\ ret.op = "translate_immediate" /\ immediate.some
         /\ ret'.op = "translate_immediate" /\ n_texts' = n_texts + 1
         /\ ret'.val
         /\ ret'.arg = ret.arg
         /\ Strip(ret.arg) # <<>>)
        => /\ immediate' = immediate
           /\ translation_module'.total_translations =
                  translation_module.total_translations
      ]_vars

\* C20: should_translate(text, is_final) is true exactly when is_final is true,
\* or the text has at least chunk_size characters, or one of the six
\* sentence-ending marks occurs anywhere in it.
C20_ShouldTranslateExactly ==
    ret.op = "should_translate"
    => (ret.val <=>
           \/ ret.info = "final"
           \/ Len(ret.arg) >= chunk_size
           \/ \E i \in 1..Len(ret.arg) :
                  ret.arg[i] \in {".", "!", "?", "u3002", "uFF01", "uFF1F"})

\* An interim text shorter than the chunk size is translated for the full-width
\* question mark in its middle
C20_Witness ==
    /\ ret.op = "should_translate"
    /\ ret.info = "interim"
    /\ ret.arg = <<"a", "uFF1F", "a">>
    /\ ret.val


\* C21: prepare_text_for_translation returns the new text verbatim and empties
\* the stored context when the text is final or ends with a sentence-ending
\* mark, whatever the context was; when the text is not final, is shorter than
\* the chunk size and holds no mark, it returns None and leaves the context as
\* it was.
C21_FullTextOrNothing ==
    [][ (ret'.op = "prepare_text_for_translation" /\ n_texts' = n_texts + 1)
        => /\ (ret'.info = "final" \/ EndsWithEnding(ret'.arg))
              => /\ prepared' = [ some |-> TRUE, text |-> ret'.arg ]
                 /\ translation_module'.previous_context = <<>>
           /\ (/\ ret'.info = "interim"
               /\ Len(ret'.arg) < chunk_size
               /\ \A i \in 1..Len(ret'.arg) : ret'.arg[i] \notin Endings)
              => /\ ~prepared'.some
                 /\ translation_module'.previous_context
                       = translation_module.previous_context
      ]_vars

\* An interim text ending with a mark returned verbatim after an earlier call
\* had left a context, which is now empty
C21_Witness ==
    /\ ret.op = "prepare_text_for_translation"
    /\ ret.info = "interim"
    /\ ret.arg = <<"a", ".">>
    /\ prepared = [ some |-> TRUE, text |-> <<"a", ".">> ]
    /\ translation_module.previous_context = <<>>
    /\ translation_module.translated_cache # <<>>
    /\ n_texts >= 1

\* C22: after reset() the stored context and the cache of the strategy are
\* empty, and from then on every prepare_text_for_translation call returns what
\* the same call returns on a strategy constructed at the time of the reset.
C22_ResetIsFresh ==
    /\ ret.op = "reset"
       => /\ translation_module.previous_context = <<>>
          /\ translation_module.translated_cache = <<>>
    /\ fresh.built
       => /\ prepared = fresh.prepared
          /\ translation_module.previous_context = fresh.previous_context
          /\ translation_module.translated_cache = fresh.translated_cache

\* A strategy reset while it held a context or a cache entry, then asked for a
\* text that it joins to the context built since
C22_Witness ==
    /\ fresh.built /\ fresh.dirty
    /\ ret.op = "prepare_text_for_translation"
    /\ prepared.some
    /\ prepared.text = <<"?", "a", "?", "a">>
    /\ fresh.prepared = prepared


\* C23: is_model_downloaded is false for a key no download was attempted for;
\* when download_translation_model returns True the key is reported downloaded,
\* the file on disk holds its entry and no other key changes; a manager
\* constructed after a restart reports every key whose download had returned
\* True; a download that returns False leaves the ledger, in memory and on
\* disk, as it was.
C23_LedgerFollowsDownloads ==
    [][ /\ \A k \in ModelKeys :
               k \notin downloads.attempted
               => ~Downloaded(model_manager.model_status, k)
        /\ (ret'.op = "download_translation_model" /\ ret'.val)
           => /\ Downloaded(model_manager'.model_status,
                            Key("transformers", ret'.arg[1]))
              /\ Downloaded(_load_model_status(status_file'),
                            Key("transformers", ret'.arg[1]))
              /\ \A k \in ModelKeys \ {Key("transformers", ret'.arg[1])} :
                     Downloaded(model_manager'.model_status, k)
                        = Downloaded(model_manager.model_status, k)
        /\ ret'.op = "ModelManager"
           => \A k \in downloads.succeeded :
                  Downloaded(model_manager'.model_status, k)
        /\ (ret'.op \in {"download_translation_model", "download_funasr_model"}
              /\ ~ret'.val)
           => /\ model_manager'.model_status = model_manager.model_status
              /\ status_file' = status_file
      ]_vars

\* C24: load_funasr_model and load_translation_model never raise; when they
\* return None (or (None, None)) both in-memory caches are as they were before
\* the call, with force_reload as without.
C24_FailedLoadKeepsCaches ==
    [][ ret'.op \in {"load_funasr_model", "load_translation_model"}
        => /\ ~loaded'.raised
           /\ ret'.val = (loaded'.model # 0)
           /\ ~ret'.val
              => /\ loaded'.tokenizer = 0
                 /\ model_manager'.model_cache = model_manager.model_cache
                 /\ model_manager'.tokenizer_cache = model_manager.tokenizer_cache
      ]_vars

\* A forced reload of a cached recognizer failed and the cache still holds the
\* object built before
C24_Witness ==
    /\ ret.op = "load_funasr_model" /\ ~ret.val /\ ret.info = "force_reload"
    /\ Key("funasr", ret.arg[1]) \in DOMAIN model_manager.model_cache
    /\ model_manager.model_cache[Key("funasr", ret.arg[1])] = 1
    /\ loaded = NothingLoaded


\* C25: get_translation_model returns the declared identifier for each of the
\* eight declared pairs and Helsinki-NLP/opus-mt-<source>-<target> for every
\* other pair.
C25_DeclaredOrConstructed ==
    ret.op = "get_translation_model"
    => ret.info =
         CASE ret.arg = <<"zh", "en">> -> "Helsinki-NLP/opus-mt-zh-en"
           [] ret.arg = <<"en", "zh">> -> "Helsinki-NLP/opus-mt-en-zh"
           [] ret.arg = <<"zh", "ja">> -> "Helsinki-NLP/opus-mt-zh-ja"
           [] ret.arg = <<"ja", "zh">> -> "Helsinki-NLP/opus-mt-ja-zh"
           [] ret.arg = <<"en", "ja">> -> "Helsinki-NLP/opus-mt-en-ja"
           [] ret.arg = <<"ja", "en">> -> "Helsinki-NLP/opus-mt-ja-en"
           [] ret.arg = <<"zh", "ko">> -> "Helsinki-NLP/opus-mt-zh-ko"
           [] ret.arg = <<"ko", "zh">> -> "Helsinki-NLP/opus-mt-ko-zh"
           [] OTHER -> "Helsinki-NLP/opus-mt-" \o ret.arg[1] \o "-" \o ret.arg[2]

\* The undeclared pair (fr, ru) asked about
C25_Witness ==
    /\ ret.op = "get_translation_model"
    /\ ret.arg = <<"fr", "ru">>
    /\ ret.info = "Helsinki-NLP/opus-mt-fr-ru"


\* C26: with the detector in use, a speech-onset event met while not speaking
\* sets is_speaking once, and a speech-offset event met while speaking clears it
\* once and triggers exactly one final flush of the recognition buffer.
C26_OnsetThenOffset ==
    [][ (/\ ret'.op = "process_audio_thread" /\ ret'.val
         /\ config.use_vad /\ audio_module.vad_model)
        => /\ (ret'.info = "onset" /\ ~audio_module.is_speaking)
              => /\ audio_module'.is_speaking
                 /\ audio_log' = Append(audio_log,
                                        [ ev |-> "speaking", flushed |-> FALSE ])
           /\ (ret'.info = "offset" /\ audio_module.is_speaking)
              => /\ ~audio_module'.is_speaking
                 /\ audio_log' = Append(audio_log,
                                        [ ev |-> "silent", flushed |-> TRUE ])
      ]_vars

\* C27: when speech goes on (audio arrives and no offset is detected) and the
\* time since the start of the segment exceeds the maximum segment duration,
\* the turn of the loop that sees it makes a forced final flush; and a forced
\* segmentation never comes less than half the maximum duration after the one
\* before.
C27_WatchdogFlushes ==
    [][ (ret'.op = "process_audio_thread" /\ now' > now)
        => /\ (/\ ret'.val
               /\ audio_module.is_speaking /\ audio_module'.is_speaking
               /\ audio_module.current_segment_start_time # NoTime
               /\ now' - audio_module.current_segment_start_time
                     > max_segment_duration_seconds * TicksPerSecond)
              => audio_log' = Append(audio_log,
                                     [ ev |-> "timeout", flushed |-> TRUE ])
           /\ (/\ Len(audio_log') = Len(audio_log) + 1
               /\ audio_log'[Len(audio_log')].ev = "timeout"
               /\ \E i \in 1..Len(audio_log) : audio_log[i].ev = "timeout")
              => 2 * (now' - audio_module.last_forced_segment_time)
                    >= max_segment_duration_seconds * TicksPerSecond
      ]_vars

\* C28: a final flush that decodes a non-empty speech buffer into no text while
\* a sentence is pending reports that sentence as a final segment, appends it
\* to the transcript and clears it.
C28_PendingSentenceEmitted ==
    [][ (/\ ret'.op = "process_asr_buffer" /\ ret'.val /\ ret'.info = "no_text"
         /\ audio_module.speech_buffer > 0
         /\ audio_module.current_sentence # <<>>)
        => /\ ret'.arg \in { audio_module.current_sentence,
                             Punctuated(audio_module.current_sentence) }
           /\ n_texts' = n_texts + 1
           /\ audio_module'.complete_transcript
                 = audio_module.complete_transcript \o ret'.arg \o <<" ">>
           /\ audio_module'.current_sentence = <<>>
      ]_vars

\* C29: when process_asr_buffer(is_final=True) has returned, the streaming
\* cache of the recognizer is empty, whichever path the call took.
C29_FinalFlushResetsCache ==
    (ret.op = "process_asr_buffer" /\ ret.val) => ~audio_module.asr_cache

\* C30 as stated: for every task the translation worker translates it makes one
\* report: the full translation when the task is final or no interim translation
\* is memoized, the suffix after the memoized translation when the task is
\* interim and the new translation starts with it, the full translation
\* otherwise; and the memo is empty after a final result and the latest full
\* translation otherwise.
C30_ReportsEveryTranslation ==
    [][ LET task == Head(translation_module.translation_queue)
            p == prepare_text_for_translation(translation_module.previous_context,
                     task.text, task.is_final, chunk_size, overlap)
            r == _translate_text(Cur, p.text, ret'.info = "ok")
            last == translation_module.last_translated_text
            said == IF task.is_final \/ last = <<>> THEN r.text
                    ELSE IF StartsWith(r.text, last)
                    THEN Strip(SubSeq(r.text, Len(last) + 1, Len(r.text)))
                    ELSE r.text
        IN (/\ ret'.op = "translation_worker"
            /\ translation_module.translation_queue # <<>>
            /\ translation_module'.translation_queue
                  = Tail(translation_module.translation_queue)
            /\ current_session.active
            /\ ~task.stop /\ p.some /\ r.ok)
           => /\ results' = Append(results,
                                   [ text |-> said, is_final |-> task.is_final ])
              /\ translation_module'.last_translated_text
                    = IF task.is_final THEN <<>> ELSE r.text
      ]_vars

\* C30, amended: the same, except that the suffix is reported with the
\* surrounding blanks removed and that nothing is reported when nothing but
\* blanks follows the memoized translation.
C30_IncrementalOutput ==
    [][ LET task == Head(translation_module.translation_queue)
            p == prepare_text_for_translation(translation_module.previous_context,
                     task.text, task.is_final, chunk_size, overlap)
            r == _translate_text(Cur, p.text, ret'.info = "ok")
            last == translation_module.last_translated_text
            new_part == Strip(SubSeq(r.text, Len(last) + 1, Len(r.text)))
            said == IF task.is_final \/ last = <<>> THEN <<r.text>>
                    ELSE IF StartsWith(r.text, last)
                    THEN IF new_part # <<>> THEN <<new_part>> ELSE <<>>
                    ELSE <<r.text>>
        IN (/\ ret'.op = "translation_worker"
            /\ translation_module.translation_queue # <<>>
            /\ translation_module'.translation_queue
                  = Tail(translation_module.translation_queue)
            /\ current_session.active
            /\ ~task.stop /\ p.some /\ r.ok)
           => /\ results' = results \o [ i \in 1..Len(said) |->
                                [ text |-> said[i], is_final |-> task.is_final ] ]
              /\ translation_module'.last_translated_text
                    = IF task.is_final THEN <<>> ELSE r.text
      ]_vars

\* An interim translation was reported in full and the next one, which starts
\* with it, by its suffix without the blank
C30_Witness ==
    /\ ret.op = "translation_worker" /\ ~ret.val
    /\ Len(results) = 2
    /\ results[1] = [ text |-> <<"Ea", ".">>, is_final |-> FALSE ]
    /\ results[2] = [ text |-> <<"Eb", ".">>, is_final |-> FALSE ]
    /\ translation_module.last_translated_text = <<"Ea", ".", " ", "Eb", ".">>

\* C31: each of the audio, translation and text-to-speech modules has at most
\* one live worker thread, whatever starts, stops, emergency stops and restarts
\* came before.
C31_OneWorkerThread ==
    LET alive == [ w \in Workers |->
                     CASE w = "audio" -> audio_module.thread
                       [] w = "translation" -> translation_module.thread
                       [] w = "tts" -> tts_module.thread ]
    IN \A w \in Workers : (IF alive[w] THEN 1 ELSE 0) + orphans[w] <= 1

\* C32: no two operations of the model manager that read or modify the caches
\* or the ledger (loads, downloads, cache clear) are ever in progress at once.
C32_ManagerOperationsSerialized ==
    \A c1, c2 \in Callers :
        (c1 # c2 /\ manager_busy[c1] # Outside) => manager_busy[c2] = Outside

\* ------------------------------------------------------------------ C33
\* The coordinator fed with final texts over two sessions, with the worker
\* threads of both, the replaced ones included
NextOrder ==
    \/ Initialize(<<"zh", "en">>, TRUE, TRUE, TRUE)
    \/ StartTranslation(TRUE, TRUE, TRUE)
    \/ EmergencyStop
    \/ \E text \in { <<"a">>, <<" ", "b", "c">> } : TextEvent(text, TRUE, MaxTexts)
    \/ TranslationWorker(TRUE)
    \/ TtsWorkerTake
    \/ TtsWorkerPlay(TRUE, TRUE)
    \/ TtsWorkerFinish(TRUE)
    \/ OrphanTtsWorkerTake
    \/ OrphanTtsWorkerPlay(TRUE, TRUE)
    \/ OrphanTtsWorkerFinish(TRUE)
    \/ \E w \in Workers : ThreadExit(w)
    \/ \E w \in Workers : OrphanExit(w)

SpecOrder == Init /\ [][NextOrder]_vars

\* C33: the translations are reported in the order in which the texts were
\* handed to the translation queue, and the utterances start playing in the
\* order in which speak() enqueued them: the reported sequence is, in each case,
\* the enqueued sequence with some elements left out, never reordered.
C33_WorkersServeInOrder ==
    LET MatchEnd(out, in) ==
            LET pos[k \in 0..Len(out)] ==
                    IF k = 0 THEN 0
                    ELSE LET later == { j \in 1..Len(in) :
                                            j > pos[k - 1] /\ in[j] = out[k] }
                         IN IF later = {} THEN Len(in) + 1
                            ELSE CHOOSE j \in later : \A i \in later : j <= i
            IN pos[Len(out)]
        InOrder(out, in) == MatchEnd(out, in) <= Len(in)
        started == SelectSeq(playback_log, LAMBDA e : e.is_playing)
        played == [ i \in 1..Len(started) |-> started[i].text ]
        spoken == [ i \in 1..Len(speak_log) |-> speak_log[i].text ]
        sources == [ i \in 1..Len(recent_source_texts) |->
                       _post_process_translation(
                           Decode(translation_module.model, recent_source_texts[i])) ]
    IN /\ InOrder(recent_translations, sources)
       /\ InOrder(played, spoken)

\* ------------------------------------------------------------------ C34
\* One session from its start to its stop, the recognizer yielding interim and
\* final texts, the translation thread taking every task it is given the
\* time to take
NextDrain ==
    \/ Initialize(<<"zh", "en">>, TRUE, TRUE, TRUE)
    \/ /\ performance_stats.sessions_count = 0
       /\ StartTranslation(TRUE, TRUE, TRUE)
    \/ \E segment_text \in { <<"a">>, <<"a", ".">> }, is_final \in BOOLEAN :
           AudioEmit(segment_text, is_final)
    \/ StopTranslation("main")
    \/ TranslationWorker(TRUE)

SpecDrain == Init /\ [][NextDrain]_vars

\* queue.get returns as soon as the queue holds a task: a translation thread
\* that is in its loop is not kept from taking the task forever
SpecDrainFair == SpecDrain /\ WF_vars(TranslationWorker(TRUE))

\* C34: a final task that is in the translation queue is eventually taken by
\* the translation worker, translated and reported as a final translation.
C34_FinalSegmentsTranslated ==
    \A t \in { <<"a">>, <<"a", ".">> } :
        (\E i \in 1..Len(translation_module.translation_queue) :
            LET task == translation_module.translation_queue[i]
            IN ~task.stop /\ task.is_final /\ task.text = t)
        ~> (/\ ret.op = "translation_worker"
            /\ ret.val
            /\ ret.info = "ok"
            /\ ret.arg = t)

\* ------------------------------------------------------------------ C35
\* C35: between the coordinator's operations, a session record is active exactly
\* when the pipeline is running.
C35_SessionIffRunning == current_session.active <=> is_running

\* ------------------------------------------------------------------ C36
\* The coordinator initialized more than once, in environments where the
\* models load or fail to load
NextReinit ==
    \/ \E pair \in LangPairs, asr_ok, model_ok, voices_ok \in BOOLEAN :
           Initialize(pair, asr_ok, model_ok, voices_ok)
    \/ \E pair \in LangPairs, asr_ok, model_ok, voices_ok \in BOOLEAN :
           InitializeAgain(pair, asr_ok, model_ok, voices_ok)
    \/ StartTranslation(TRUE, TRUE, TRUE)
    \/ StopTranslation("main")

SpecReinit == Init /\ [][NextReinit]_vars

\* C36: is_initialized is true only if the coordinator holds its three module
\* instances, the audio module holds a loaded recognizer and the translation
\* module holds a loaded model.
C36_InitializedMeansLoaded ==
    is_initialized =>
        /\ audio_module.created /\ translation_module.created /\ tts_module.created
        /\ audio_module.asr_model
        /\ translation_module.model # ""

\* ------------------------------------------------------------------ C37
\* The text-to-speech service playing queued utterances while a client stops
\* the playback in progress
NextPlayback ==
    \/ Initialize(<<"zh", "en">>, TRUE, TRUE, TRUE)
    \/ StartTtsService(TRUE, TRUE)
    \/ \E text \in { <<"a">>, <<"b">> } : Speak(text, "normal")
    \/ TtsWorkerTake
    \/ TtsWorkerPlay(TRUE, TRUE)
    \/ TtsWorkerFinish(TRUE)
    \/ StopCurrentPlayback

SpecPlayback == Init /\ [][NextPlayback]_vars

\* C37: every "playing" status reported for an utterance is followed by exactly
\* one "finished" status for it: at no time have more "finished" than "playing"
\* statuses been reported for a text, and once no playback is in progress as
\* many of the one as of the other have been reported.
C37_OneFinishedPerPlaying ==
    \A t \in { <<"a">>, <<"b">> } :
        LET started == Cardinality({ i \in 1..Len(playback_log) :
                           playback_log[i].text = t /\ playback_log[i].is_playing })
            ended == Cardinality({ i \in 1..Len(playback_log) :
                           playback_log[i].text = t /\ ~playback_log[i].is_playing })
        IN /\ ended <= started
           /\ tts_module.worker # "playing" => ended = started

\* ------------------------------------------------------------------ C38
\* The audio module through its own interface, the calls of the recognizer
\* taking time
NextCapture ==
    \/ Initialize(<<"zh", "en">>, TRUE, TRUE, TRUE)
    \/ StartCapture(TRUE, TRUE)
    \/ AudioRecognizerEnter
    \/ \E segment_text \in { <<"a">>, <<"b">> }, is_final \in BOOLEAN :
           AudioRecognizerLeave(segment_text, is_final)
    \/ StopCapture("main")
    \/ ThreadExit("audio")

SpecCapture == Init /\ [][NextCapture]_vars

\* C38: the final flush of stop_capture() never runs while the processing thread
\* is still executing: when a stop_capture() that finds a pending sentence
\* returns, the audio thread is not inside process_asr_buffer.
C38_FlushAfterThreadEnded ==
    [][ (/\ ret'.op = "stop_capture"
         /\ audio_module.running /\ ~audio_module'.running
         /\ audio_module.current_sentence # <<>>)
        => ~audio_busy /\ ~audio_module'.thread ]_vars

\* ------------------------------------------------------------------ C39
\* The language pair changed between translations, immediate and queued, the
\* event loop running the model task when it gets to it
NextSwitch ==
    \/ Initialize(<<"zh", "en">>, TRUE, TRUE, TRUE)
    \/ \E pair \in LangPairs : ChangeLanguagePair(pair, TRUE, TRUE)
    \/ InitializeModelTask(TRUE)
    \/ TranslateImmediate(<<"a">>, TRUE)
    \/ StartTranslation(TRUE, TRUE, TRUE)
    \/ AddTranslationTask(<<"b", ".">>, TRUE)
    \/ TranslationWorker(TRUE)

SpecSwitch == Init /\ [][NextSwitch]_vars

\* C39: every translation produced, and every entry of the translation cache,
\* is the output of the model of the language pair that the last successful
\* initialize() or change_language_pair() asked for (the configured pair).
C39_TranslationsByRequestedModel ==
    LET model == get_translation_model(config.source_language,
                                       config.target_language)
        Output(text) == _post_process_translation(Decode(model, Strip(text)))
        cache == translation_module.translation_cache
    IN /\ \A text \in DOMAIN cache : cache[text] = Output(text)
       /\ (ret.op = "translate_immediate" /\ immediate.some)
              => immediate.text = Output(ret.arg)

\* ------------------------------------------------------------------ C40
\* Strategies constructed with small chunk sizes and overlaps, the overlap 0
\* included, given texts shorter and longer than the chunk, and reset
NextOverlap ==
    \/ \E cs \in {2, 3}, ov \in {0, 1, 2} : StrategyNew(cs, ov)
    \/ \E text \in { <<"a">>, <<"a", "b">>, <<"?", "a">>, <<"a", ".">>,
                     <<"a", "b", "c", "d">>, <<"a", " ", "b", "c", "d", "e">> },
          is_final \in BOOLEAN : StrategyPrepare(text, is_final)
    \/ StrategyClear

SpecOverlap == Init /\ [][NextOverlap]_vars

\* C40: the stored context of a strategy is empty or a suffix of the incremental
\* text it returned last, and is never longer than the strategy's overlap.
C40_ContextWithinOverlap ==
    LET context == strategy.previous_context
        text == strategy.returned
    IN /\ \/ context = <<>>
          \/ /\ Len(context) <= Len(text)
             /\ context = SubSeq(text, Len(text) - Len(context) + 1, Len(text))
       /\ Len(context) <= strategy.overlap

=========================================================================
